---------------------------- MODULE Spec2Model ----------------------------
(***************************************************************************)
(* Model of secure-the-mint: the commitment tree builder                   *)
(* (secure_the_bag.py) and the unwinder (unwind_the_bag.py).               *)
(*                                                                         *)
(* Hashes are modelled as injective constructors: the tree hash of a       *)
(* program is the tagged program itself, the name of a coin is the tagged  *)
(* triple (parent, puzzle hash, amount).  Two hashes are equal exactly     *)
(* when their preimages are.  A Python dict is the sequence of its items;  *)
(* an Optional value is a sequence of length 0 or 1.                       *)
(***************************************************************************)
EXTENDS Integers, Sequences, FiniteSets, TLC

----------------------------------------------------------------------------
(* Bounds of the model *)

\* number of leaves of the largest small tree
MaxTargets == 5
\* largest fan-out width of the small trees
MaxWidth == 3
\* depth at which a runaway recursion of secure_the_bag is cut off
\* (CPython raises RecursionError at its recursion limit)
RecursionLimit == 6
\* how many times one behaviour interrupts and re-invokes the unwind
MaxRestarts == 1
\* how many spends another actor makes in one behaviour
MaxForeign == 1
\* how many secure_the_bag calls one behaviour of the builder makes
MaxBuilds == 3

----------------------------------------------------------------------------
(* Python values *)

None == <<>>
Some(x) == <<x>>
\* A dict keeps its keys in insertion order: it is the sequence of its
\* <<key, value>> items.
EmptyDict == <<>>

DictKeys(d) == { d[j][1] : j \in 1..Len(d) }

\* d[k] = v: the value of a key is replaced in place, a new key is appended
DictSet(d, k, v) ==
    IF \E j \in 1..Len(d) : d[j][1] = k
    THEN [j \in 1..Len(d) |-> IF d[j][1] = k THEN <<k, v>> ELSE d[j]]
    ELSE Append(d, <<k, v>>)

\* d.get(k)
DictGet(d, k) ==
    IF \E j \in 1..Len(d) : d[j][1] = k
    THEN Some(d[CHOOSE j \in 1..Len(d) : d[j][1] = k][2])
    ELSE None

\* bytes.hex(): an injective rendering of the bytes as a string
hex(b) == <<"hex", b>>

\* seq[::-1]
Reverse(s) == [j \in 1..Len(s) |-> s[Len(s) + 1 - j]]

----------------------------------------------------------------------------
(* chia types *)

\* Program.to((1, conditions)): the quoted condition list
Program_quote(list_of_conditions) == <<"q", list_of_conditions>>

\* Program.get_tree_hash()
get_tree_hash(program) == <<"sha256tree", program>>

\* running a quoted program returns the quoted value whatever the solution
Program_run(program, solution) == program[2]

Coin(parent_coin_info, puzzle_hash, amount) ==
    [parent_coin_info |-> parent_coin_info, puzzle_hash |-> puzzle_hash, amount |-> amount]

\* Coin.name(): std_hash(parent_coin_info + puzzle_hash + int_to_bytes(amount))
coin_name(coin) == <<"coin", coin.parent_coin_info, coin.puzzle_hash, coin.amount>>

CoinSpend(coin, puzzle_reveal, solution) ==
    [coin |-> coin, puzzle_reveal |-> puzzle_reveal, solution |-> solution]

----------------------------------------------------------------------------
(* secure_the_bag.py *)

EMPTY_COIN_ANNOUNCEMENT == <<"CREATE_COIN_ANNOUNCEMENT", "$">>

Target(puzzle_hash, amount) == [puzzle_hash |-> puzzle_hash, amount |-> amount]

\* a variant of the condition that leaves the amount out
create_coin_condition_without_amount(target) ==
    <<"CREATE_COIN", target.puzzle_hash, 0, <<target.puzzle_hash>>>>

create_coin_condition(target) ==
    <<"CREATE_COIN", target.puzzle_hash, target.amount, <<target.puzzle_hash>>>>

TargetCoin(target, puzzle, amount) ==
    [target |-> target, puzzle |-> puzzle,
     puzzle_hash |-> get_tree_hash(puzzle), amount |-> amount]

\* a variant of the loop that puts each closed batch before the earlier ones
RECURSIVE batch_loop_prepends(_, _, _, _, _)
batch_loop_prepends(targets, leaf_width, index, current_batch, results) ==
    IF index > Len(targets) THEN results
    ELSE LET batch == Append(current_batch, targets[index])
         IN  IF Len(batch) = leaf_width \/ index = Len(targets)
             THEN batch_loop_prepends(targets, leaf_width, index + 1, <<>>,
                                      <<batch>> \o results)
             ELSE batch_loop_prepends(targets, leaf_width, index + 1, batch, results)

\* the for loop of batch_the_bag, from the (1-based) position index on
RECURSIVE batch_loop(_, _, _, _, _)
batch_loop(targets, leaf_width, index, current_batch, results) ==
    IF index > Len(targets) THEN results
    ELSE LET batch == Append(current_batch, targets[index])
         IN  IF Len(batch) = leaf_width \/ index = Len(targets)
             THEN batch_loop(targets, leaf_width, index + 1, <<>>, Append(results, batch))
             ELSE batch_loop(targets, leaf_width, index + 1, batch, results)

\* a variant that closes a batch one member later
batch_the_bag_one_wider(targets, leaf_width) ==
    batch_loop(targets, leaf_width + 1, 1, <<>>, <<>>)

batch_the_bag(targets, leaf_width) == batch_loop(targets, leaf_width, 1, <<>>, <<>>)

\* a variant that puts the announcement after the create-coin conditions
batch_conditions_announce_last(batch_targets) ==
    [j \in 1..Len(batch_targets) |-> create_coin_condition(batch_targets[j])]
    \o <<EMPTY_COIN_ANNOUNCEMENT>>

\* list_of_conditions of one batch
batch_conditions(batch_targets) ==
    <<EMPTY_COIN_ANNOUNCEMENT>> \o
    [j \in 1..Len(batch_targets) |-> create_coin_condition(batch_targets[j])]

\* a variant that takes the amount of the first member for the total
batch_total_first(batch_targets, j) == batch_targets[1].amount

\* total_amount of one batch
RECURSIVE batch_total(_, _)
batch_total(batch_targets, j) ==
    IF j > Len(batch_targets) THEN 0
    ELSE batch_targets[j].amount + batch_total(batch_targets, j + 1)

\* a variant of the second inner loop that records the first member only
record_parents_first_only(lookup, batch_targets, j, puzzle, amount) ==
    IF j > 1 THEN lookup
    ELSE DictSet(lookup, hex(batch_targets[1].puzzle_hash),
                 TargetCoin(batch_targets[1], puzzle, amount))

\* the second inner loop: one lookup entry per member of the batch, in order
RECURSIVE record_parents(_, _, _, _, _)
record_parents(lookup, batch_targets, j, puzzle, amount) ==
    IF j > Len(batch_targets) THEN lookup
    ELSE LET updated == DictSet(lookup, hex(batch_targets[j].puzzle_hash),
                                TargetCoin(batch_targets[j], puzzle, amount))
         IN  \* (the test has TLC evaluate the dict before the next iteration)
             IF Len(updated) > 0
             THEN record_parents(updated, batch_targets, j + 1, puzzle, amount)
             ELSE updated

\* a variant of the loop over the batches that passes the member of a batch
\* of one on to the next level as it is
RECURSIVE build_level_passes_single(_, _, _, _)
build_level_passes_single(batched_targets, b, results, lookup) ==
    IF b > Len(batched_targets) THEN [results |-> results, lookup |-> lookup]
    ELSE LET batch_targets == batched_targets[b]
             puzzle == Program_quote(batch_conditions(batch_targets))
             amount == batch_total(batch_targets, 1)
         IN  IF Len(batch_targets) = 1
             THEN build_level_passes_single(batched_targets, b + 1,
                                            Append(results, batch_targets[1]), lookup)
             ELSE build_level_passes_single(batched_targets, b + 1,
                         Append(results, Target(get_tree_hash(puzzle), amount)),
                         record_parents(lookup, batch_targets, 1, puzzle, amount))

\* the loop over the batches: the new targets and the extended lookup
RECURSIVE build_level(_, _, _, _)
build_level(batched_targets, b, results, lookup) ==
    IF b > Len(batched_targets) THEN [results |-> results, lookup |-> lookup]
    ELSE LET batch_targets == batched_targets[b]
             puzzle == Program_quote(batch_conditions(batch_targets))
             amount == batch_total(batch_targets, 1)
         IN  build_level(batched_targets, b + 1,
                         Append(results, Target(get_tree_hash(puzzle), amount)),
                         record_parents(lookup, batch_targets, 1, puzzle, amount))

\* secure_the_bag at recursion depth `level`.  The result carries the lookup
\* as the calls left it also when the recursion does not end.
RECURSIVE secure_the_bag_rec(_, _, _, _)
secure_the_bag_rec(targets, leaf_width, parent_puzzle_lookup, level) ==
    IF Len(targets) = 1
    THEN [raised |-> "", root |-> targets[1].puzzle_hash, lookup |-> parent_puzzle_lookup]
    ELSE IF level >= RecursionLimit
    THEN [raised |-> "RecursionError", root |-> None, lookup |-> parent_puzzle_lookup]
    ELSE LET built == build_level(batch_the_bag(targets, leaf_width), 1, <<>>,
                                  parent_puzzle_lookup)
         IN  secure_the_bag_rec(built.results, leaf_width, built.lookup, level + 1)

\* a variant that answers from the lookup when it already holds the first target
secure_the_bag_from_lookup(targets, leaf_width, parent_puzzle_lookup) ==
    LET known == DictGet(parent_puzzle_lookup, hex(targets[1].puzzle_hash))
    IN  IF Len(targets) > 1 /\ known /= None
        THEN [raised |-> "", root |-> known[1].puzzle_hash, lookup |-> parent_puzzle_lookup]
        ELSE secure_the_bag_rec(targets, leaf_width, parent_puzzle_lookup, 0)

secure_the_bag(targets, leaf_width, parent_puzzle_lookup) ==
    secure_the_bag_rec(targets, leaf_width, parent_puzzle_lookup, 0)

\* the calls of secure_the_bag that batch, outermost first: what each was
\* handed, the batches it made, the targets it passed on and the lookup it
\* passed on
RECURSIVE secure_the_bag_levels(_, _, _, _)
secure_the_bag_levels(targets, leaf_width, parent_puzzle_lookup, level) ==
    IF Len(targets) = 1 \/ level >= RecursionLimit THEN <<>>
    ELSE LET batched_targets == batch_the_bag(targets, leaf_width)
             built == build_level(batched_targets, 1, <<>>, parent_puzzle_lookup)
         IN  <<[targets |-> targets, batched_targets |-> batched_targets,
                results |-> built.results, given |-> parent_puzzle_lookup,
                lookup |-> built.lookup]>>
             \o secure_the_bag_levels(built.results, leaf_width, built.lookup, level + 1)

\* a variant that gives every coin the amount of its lookup entry
parent_coin_entry_amount(genesis_coin_name, parent, parent_coin_info) ==
    Coin(parent_coin_info, parent.puzzle_hash, parent.amount)

\* the coin of a lookup entry under the parent identity parent_coin_info
parent_coin(genesis_coin_name, parent, parent_coin_info) ==
    Coin(parent_coin_info, parent.puzzle_hash,
         IF parent_coin_info = genesis_coin_name THEN 0 ELSE parent.amount)

\* parent_of_puzzle_hash: (the spend of the coin that creates puzzle_hash, its name).
\* parent, parent_coin_info and coin are bound to their values once, as the
\* assignments of the code bind them.
RECURSIVE parent_of_puzzle_hash(_, _, _)

\* a variant whose spend carries the puzzle hash asked for as its solution
parent_of_puzzle_hash_child_solution(genesis_coin_name, puzzle_hash, parent_puzzle_lookup) ==
    CHOOSE result \in
      { IF parent = None
        THEN [coin_spend |-> None, name |-> genesis_coin_name]
        ELSE CHOOSE found \in
               { [coin_spend |-> Some(CoinSpend(coin, parent[1].puzzle, <<puzzle_hash>>)),
                  name |-> coin_name(coin)] :
                 coin \in
                   { parent_coin(genesis_coin_name, parent[1], parent_coin_info) :
                     parent_coin_info \in
                       { parent_of_puzzle_hash(genesis_coin_name, parent[1].puzzle_hash,
                                               parent_puzzle_lookup).name } } } : TRUE :
        parent \in { DictGet(parent_puzzle_lookup, hex(puzzle_hash)) } } : TRUE

\* a variant that names a coin for a puzzle hash the lookup does not hold
parent_of_puzzle_hash_names_absent(genesis_coin_name, puzzle_hash, parent_puzzle_lookup) ==
    CHOOSE result \in
      { IF parent = None
        THEN [coin_spend |-> None,
              name |-> coin_name(Coin(genesis_coin_name, puzzle_hash, 0))]
        ELSE CHOOSE found \in
               { [coin_spend |-> Some(CoinSpend(coin, parent[1].puzzle, <<>>)),
                  name |-> coin_name(coin)] :
                 coin \in
                   { parent_coin(genesis_coin_name, parent[1], parent_coin_info) :
                     parent_coin_info \in
                       { parent_of_puzzle_hash(genesis_coin_name, parent[1].puzzle_hash,
                                               parent_puzzle_lookup).name } } } : TRUE :
        parent \in { DictGet(parent_puzzle_lookup, hex(puzzle_hash)) } } : TRUE

parent_of_puzzle_hash(genesis_coin_name, puzzle_hash, parent_puzzle_lookup) ==
    CHOOSE result \in
      { IF parent = None
        THEN [coin_spend |-> None, name |-> genesis_coin_name]
        ELSE CHOOSE found \in
               { [coin_spend |-> Some(CoinSpend(coin, parent[1].puzzle, <<>>)),
                  name |-> coin_name(coin)] :
                 coin \in
                   { parent_coin(genesis_coin_name, parent[1], parent_coin_info) :
                     parent_coin_info \in
                       { parent_of_puzzle_hash(genesis_coin_name, parent[1].puzzle_hash,
                                               parent_puzzle_lookup).name } } } : TRUE :
        parent \in { DictGet(parent_puzzle_lookup, hex(puzzle_hash)) } } : TRUE

----------------------------------------------------------------------------
(* The ledger (full node), as the unwinder sees it *)

\* a variant of the query that knows no coin
get_coin_record_by_name_none(records, name) == None

\* FullNodeRpcClient.get_coin_record_by_name on the coin records `records`
\* (a function from the names of the coins the ledger knows to their
\* spent_block_index, 0 while unspent)
get_coin_record_by_name(records, name) ==
    IF name \in DOMAIN records THEN Some([spent_block_index |-> records[name]]) ELSE None

\* the coins a spend creates: one per CREATE_COIN condition its puzzle returns
additions(coin_spend) ==
    LET conditions == Program_run(coin_spend.puzzle_reveal, coin_spend.solution)
    IN  { Coin(coin_name(coin_spend.coin), conditions[j][2], conditions[j][3]) :
            j \in { k \in 1..Len(conditions) : conditions[k][1] = "CREATE_COIN" } }

SpendNames(coin_spends) == { coin_name(coin_spends[j].coin) : j \in 1..Len(coin_spends) }

\* the ledger before any coin of the tree exists
NoRecords == [n \in {} |-> 0]

\* new unspent coins are recorded
CreateCoins(records, created) ==
    [n \in (DOMAIN records) \cup created |-> IF n \in DOMAIN records THEN records[n] ELSE 0]

AllUnspent(records, names) ==
    \A n \in names : n \in DOMAIN records /\ records[n] = 0

\* a block that includes the spends: every spent coin gets a spent index > 0
\* and every created coin is recorded unspent
ApplySpends(records, coin_spends) ==
    LET spent == SpendNames(coin_spends)
        created == UNION { { coin_name(c) : c \in additions(coin_spends[j]) } :
                           j \in 1..Len(coin_spends) }
    IN  [n \in (DOMAIN records) \cup created |->
            IF n \in spent THEN 1
            ELSE IF n \in DOMAIN records THEN records[n] ELSE 0]

----------------------------------------------------------------------------
(* unwind_the_bag.py *)

\* spends per pushed bundle of the full-tree unwind
batch_size == 10

\* the state of get_unwind before its while loop
get_unwind_start(target_puzzle_hash) ==
    [current_puzzle_hash |-> Some(target_puzzle_hash),
     required_coin_spends |-> <<>>, running |-> TRUE, warned |-> FALSE]

\* a variant of the loop body that stops at the first coin the ledger does not know
get_unwind_step_stops_unknown(records, genesis_coin_id, parent_puzzle_lookup, st) ==
    IF st.current_puzzle_hash = None THEN [st EXCEPT !.running = FALSE]
    ELSE LET found == parent_of_puzzle_hash(genesis_coin_id, st.current_puzzle_hash[1],
                                            parent_puzzle_lookup).coin_spend
         IN  IF found = None THEN [st EXCEPT !.running = FALSE]
             ELSE LET coin_spend == found[1]
                      response == get_coin_record_by_name(records,
                                                          coin_name(coin_spend.coin))
                  IN  IF response = None \/ response[1].spent_block_index = 0
                      THEN [st EXCEPT
                              !.required_coin_spends = Append(@, coin_spend),
                              !.running = FALSE]
                      ELSE [st EXCEPT !.running = FALSE, !.warned = TRUE]

\* a variant of the loop body that stops at an unspent coin without planning it
get_unwind_step_skips_unspent(records, genesis_coin_id, parent_puzzle_lookup, st) ==
    IF st.current_puzzle_hash = None THEN [st EXCEPT !.running = FALSE]
    ELSE LET found == parent_of_puzzle_hash(genesis_coin_id, st.current_puzzle_hash[1],
                                            parent_puzzle_lookup).coin_spend
         IN  IF found = None THEN [st EXCEPT !.running = FALSE]
             ELSE LET coin_spend == found[1]
                      response == get_coin_record_by_name(records,
                                                          coin_name(coin_spend.coin))
                  IN  IF response = None
                      THEN [st EXCEPT
                              !.required_coin_spends = Append(@, coin_spend),
                              !.current_puzzle_hash = Some(coin_spend.coin.puzzle_hash)]
                      ELSE [st EXCEPT !.running = FALSE]

\* a variant of the loop body that also plans the spend of a coin the ledger
\* records as spent
get_unwind_step_plans_spent(records, genesis_coin_id, parent_puzzle_lookup, st) ==
    IF st.current_puzzle_hash = None THEN [st EXCEPT !.running = FALSE]
    ELSE LET found == parent_of_puzzle_hash(genesis_coin_id, st.current_puzzle_hash[1],
                                            parent_puzzle_lookup).coin_spend
         IN  IF found = None THEN [st EXCEPT !.running = FALSE]
             ELSE LET coin_spend == found[1]
                      response == get_coin_record_by_name(records,
                                                          coin_name(coin_spend.coin))
                  IN  IF response = None
                      THEN [st EXCEPT
                              !.required_coin_spends = Append(@, coin_spend),
                              !.current_puzzle_hash = Some(coin_spend.coin.puzzle_hash)]
                      ELSE [st EXCEPT
                              !.required_coin_spends = Append(@, coin_spend),
                              !.running = FALSE]

\* one iteration of the while loop of get_unwind, against the coin records
\* the query of this iteration sees
get_unwind_step(records, genesis_coin_id, parent_puzzle_lookup, st) ==
    IF st.current_puzzle_hash = None THEN [st EXCEPT !.running = FALSE]
    ELSE LET found == parent_of_puzzle_hash(genesis_coin_id, st.current_puzzle_hash[1],
                                            parent_puzzle_lookup).coin_spend
         IN  IF found = None THEN [st EXCEPT !.running = FALSE]
             ELSE LET coin_spend == found[1]
                      response == get_coin_record_by_name(records,
                                                          coin_name(coin_spend.coin))
                  IN  IF response = None
                      THEN [st EXCEPT
                              !.required_coin_spends = Append(@, coin_spend),
                              !.current_puzzle_hash = Some(coin_spend.coin.puzzle_hash)]
                      ELSE IF response[1].spent_block_index = 0
                      THEN [st EXCEPT
                              !.required_coin_spends = Append(@, coin_spend),
                              !.running = FALSE]
                      ELSE [st EXCEPT !.running = FALSE, !.warned = TRUE]

\* get_unwind on coin records that do not change while it runs
RECURSIVE get_unwind_loop(_, _, _, _)
get_unwind_loop(records, genesis_coin_id, parent_puzzle_lookup, st) ==
    IF ~st.running THEN st
    ELSE get_unwind_loop(records, genesis_coin_id, parent_puzzle_lookup,
                         get_unwind_step(records, genesis_coin_id, parent_puzzle_lookup, st))

get_unwind(records, genesis_coin_id, parent_puzzle_lookup, target_puzzle_hash) ==
    get_unwind_loop(records, genesis_coin_id, parent_puzzle_lookup,
                    get_unwind_start(target_puzzle_hash))

\* a variant that returns the plan without its first spend
unwind_the_bag_without_first(records, target_puzzle_hash, genesis_coin_id, parent_puzzle_lookup) ==
    LET walked == get_unwind(records, genesis_coin_id, parent_puzzle_lookup,
                             target_puzzle_hash).required_coin_spends
    IN  IF walked = <<>> THEN <<>> ELSE Tail(Reverse(walked))

\* a variant that returns the spends in the order the walk found them
unwind_the_bag_as_walked(records, target_puzzle_hash, genesis_coin_id, parent_puzzle_lookup) ==
    get_unwind(records, genesis_coin_id, parent_puzzle_lookup,
               target_puzzle_hash).required_coin_spends

unwind_the_bag(records, target_puzzle_hash, genesis_coin_id, parent_puzzle_lookup) ==
    Reverse(get_unwind(records, genesis_coin_id, parent_puzzle_lookup,
                       target_puzzle_hash).required_coin_spends)

\* a variant of the wait that returns on the first answer of the ledger
wait_for_coin_spend_returns_at_once(records, name) == TRUE

\* a variant of the wait that returns as soon as the coin is known
wait_for_coin_spend_returns_known(records, name) ==
    get_coin_record_by_name(records, name) /= None

\* wait_for_coin_spend leaves its loop on this answer of the ledger
wait_for_coin_spend_returns(records, name) ==
    LET coin_record == get_coin_record_by_name(records, name)
    IN  coin_record /= None /\ coin_record[1].spent_block_index > 0

\* a variant that answers False for a coin that is spent
unspent_coin_exists_false_when_spent(records, name) ==
    LET coin_record == get_coin_record_by_name(records, name)
    IN  IF coin_record = None THEN [raised |-> FALSE, value |-> FALSE]
        ELSE IF coin_record[1].spent_block_index > 0
        THEN [raised |-> FALSE, value |-> FALSE]
        ELSE [raised |-> FALSE, value |-> TRUE]

\* unspent_coin_exists: the value returned, or that the exception is raised
unspent_coin_exists(records, name) ==
    LET coin_record == get_coin_record_by_name(records, name)
    IN  IF coin_record = None THEN [raised |-> FALSE, value |-> FALSE]
        ELSE IF coin_record[1].spent_block_index > 0
        THEN [raised |-> TRUE, value |-> FALSE]
        ELSE [raised |-> FALSE, value |-> TRUE]

\* one pass through the body of wait_for_unspent_coin's `while True`: the
\* exception of unspent_coin_exists leaves the function, True breaks the
\* loop, False leads to the sleep
wait_for_unspent_coin_step(records, name) ==
    LET exists == unspent_coin_exists(records, name)
    IN  IF exists.raised THEN "raise"
        ELSE IF exists.value THEN "break"
        ELSE "sleep"

\* a variant of the loop body that leaves the loop on any record of the coin
wait_for_coin_spend_step_breaks_known(records, name) ==
    IF get_coin_record_by_name(records, name) = None THEN "continue" ELSE "break"

\* one pass through the body of wait_for_coin_spend's `while True`: the query,
\* then `continue` (the coin is unknown), `break` (it is spent) or the sleep
wait_for_coin_spend_step(records, name) ==
    LET coin_record == get_coin_record_by_name(records, name)
    IN  IF coin_record = None THEN "continue"
        ELSE IF coin_record[1].spent_block_index > 0 THEN "break"
        ELSE "sleep"

\* the sum of the amounts of the coins of a set
RECURSIVE sum_amounts(_)
sum_amounts(coins) ==
    IF coins = {} THEN 0
    ELSE LET c == CHOOSE x \in coins : TRUE IN c.amount + sum_amounts(coins \ {c})

\* missing_amount = addition_amount - coin_spend.coin.amount
missing_amount(coin_spend) == sum_amounts(additions(coin_spend)) - coin_spend.coin.amount

\* a variant that hands every remaining planned spend to one bundle
single_bundle_spends_rest(coin_spends, index) == SubSeq(coin_spends, index, Len(coin_spends))

\* the tree spends of the bundle of one iteration of `for coin_spend in
\* coin_spends`: [coin_spend]
single_bundle_spends(coin_spends, index) == <<coin_spends[index]>>

\* the spend bundle one iteration pushes: with a fee, the spend and the fee
\* transaction that asserts the announcement of its coin; else the spend alone
single_bundle(coin_spends, index, unwind_fee) ==
    IF unwind_fee > 0
    THEN [coin_spends |-> single_bundle_spends(coin_spends, index),
          fee |-> Some([fee |-> unwind_fee,
                        missing_amount |-> missing_amount(coin_spends[index]),
                        coin_announcements |->
                            <<<<coin_name(coin_spends[index].coin), "$">>>>])]
    ELSE [coin_spends |-> single_bundle_spends(coin_spends, index), fee |-> None]

\* level_coin_spends[index], a defaultdict(dict) held as a sequence whose
\* element index + 1 is the dict of depth index
LevelAt(levels, index) == IF index + 1 <= Len(levels) THEN levels[index + 1] ELSE <<>>

\* a variant that holds a level as a list: every spend placed is appended to it
LevelSet_appends(levels, index, k, v) ==
    [j \in 1..(IF index + 1 > Len(levels) THEN index + 1 ELSE Len(levels)) |->
        IF j = index + 1 THEN Append(LevelAt(levels, index), <<k, v>>)
        ELSE LevelAt(levels, j - 1)]

LevelSet(levels, index, k, v) ==
    [j \in 1..(IF index + 1 > Len(levels) THEN index + 1 ELSE Len(levels)) |->
        IF j = index + 1 THEN DictSet(LevelAt(levels, index), k, v)
        ELSE LevelAt(levels, j - 1)]

\* a variant that gives the spend nearest the target the level index 0
RECURSIVE place_spends_leafward(_, _, _)
place_spends_leafward(acc, unwound_spends, index) ==
    IF index >= Len(unwound_spends) THEN acc
    ELSE CHOOSE placed \in
           { place_spends_leafward(
               [level_coin_spends |->
                    LevelSet(acc.level_coin_spends, Len(unwound_spends) - 1 - index,
                             hex(coin_spend.coin.puzzle_hash), coin_spend),
                max_depth |-> IF Len(unwound_spends) - 1 - index > acc.max_depth
                              THEN Len(unwound_spends) - 1 - index ELSE acc.max_depth],
               unwound_spends, index + 1) :
             coin_spend \in { unwound_spends[index + 1] } } : TRUE

\* the loop `for index, coin_spend in enumerate(unwound_spends)` from index on
RECURSIVE place_spends(_, _, _)
place_spends(acc, unwound_spends, index) ==
    IF index >= Len(unwound_spends) THEN acc
    ELSE CHOOSE placed \in
           { place_spends(
               [level_coin_spends |->
                    LevelSet(acc.level_coin_spends, index,
                             hex(coin_spend.coin.puzzle_hash), coin_spend),
                max_depth |-> IF index > acc.max_depth THEN index ELSE acc.max_depth],
               unwound_spends, index + 1) :
             coin_spend \in { unwound_spends[index + 1] } } : TRUE

\* a variant of the test that pushes full sub-batches only
batch_ready_full_only(bundle_len, iter, level_len) == bundle_len >= batch_size

\* a variant of the test that pushes every spend on its own
batch_ready_each_spend(bundle_len, iter, level_len) == bundle_len >= 1

\* the test that closes a sub-batch and pushes it
batch_ready(bundle_len, iter, level_len) == bundle_len >= batch_size \/ iter = level_len

\* a variant that asserts the announcement of the last spend appended only
fee_announcements_last_only(bundle_spends) ==
    <<<<coin_name(bundle_spends[Len(bundle_spends)].coin), "$">>>>

\* the coin announcements the fee transaction asserts
fee_announcements(bundle_spends) ==
    [j \in 1..Len(bundle_spends) |-> <<coin_name(bundle_spends[j].coin), "$">>]

\* the spend bundle pushed for a sub-batch.  With a fee the wallet funds
\* spend_bundle_fee + missing_amount, missing_amount being the value the loop
\* computed last: that of the spend appended last.
make_bundle(bundle_spends, unwind_fee) ==
    IF unwind_fee > 0
    THEN [coin_spends |-> bundle_spends,
          fee |-> Some([fee |-> Len(bundle_spends) * unwind_fee,
                        missing_amount |->
                            missing_amount(bundle_spends[Len(bundle_spends)]),
                        coin_announcements |-> fee_announcements(bundle_spends)])]
    ELSE [coin_spends |-> bundle_spends, fee |-> None]

----------------------------------------------------------------------------
(* The inputs: target lists and widths *)

\* fan-out width of the tree that has a level of more than batch_size coins
BigWidth == 4
\* the fee per spend: none, or one mojo
Fees == {0, 1}

Leaf(k) == Target(<<"ph", k>>, k)
Leaves(n) == [k \in 1..n |-> Leaf(k)]

Config(ts, w) == [targets |-> ts, leaf_width |-> w]
SmallConfigs == { Config(Leaves(n), w) : n \in 1..MaxTargets, w \in 2..MaxWidth }
\* batch_size + 1 leaf batches: its lowest level needs two sub-batches
BigConfig == Config(Leaves(BigWidth * batch_size + 1), BigWidth)
Configs == SmallConfigs \cup {BigConfig}

GenesisIds == { <<"genesis", "did">> }

----------------------------------------------------------------------------
VARIABLES
    \* the arguments of app
    targets, leaf_width, genesis_coin_id, unwind_fee,
    \* what secure_the_bag(targets, leaf_width) returned to app
    root_hash, parent_puzzle_lookup,
    \* the ledger: coin records and the spend bundles accepted but not yet in a block
    coin_records, mempool,
    \* app, full-tree unwind: where it is, and its locals
    pc, batch_index, walk, level_coin_spends, max_depth, total_spends,
    depth, i, bundle_spends, spent_coin_names,
    \* history: the bundles this run pushed, the coins spent when it began,
    \* and how often the run was re-invoked and another actor spent
    pushes, spent_at_start, restarts, foreign,
    \* single planner calls: the target and what unwind_the_bag returned
    unwind_target, unwind_result,
    \* the builder: the dict that is the default value of secure_the_bag's
    \* parent_puzzle_lookup parameter, and the calls made
    default_lookup, builds,
    \* single calls of batch_the_bag: the arguments and what it returned
    batch_calls

inputVars == <<targets, leaf_width, genesis_coin_id, unwind_fee, root_hash,
               parent_puzzle_lookup>>
ledgerVars == <<coin_records, mempool>>
appVars == <<pc, batch_index, walk, level_coin_spends, max_depth, total_spends,
             depth, i, bundle_spends, spent_coin_names>>
historyVars == <<pushes, spent_at_start, restarts, foreign>>
plannerVars == <<unwind_target, unwind_result>>
builderVars == <<default_lookup, builds, batch_calls>>
vars == <<inputVars, ledgerVars, appVars, historyVars, plannerVars, builderVars>>

batched_targets == batch_the_bag(targets, leaf_width)

\* the spend of every internal node coin of a tree
NodeSpends(genesis, lookup) ==
    { parent_of_puzzle_hash(genesis, k[2], lookup).coin_spend[1] : k \in DictKeys(lookup) }

TreeSpends == NodeSpends(genesis_coin_id, parent_puzzle_lookup)

\* the coin the spend of the genesis coin creates
RootCoin == Coin(genesis_coin_id, root_hash, 0)

SpentCoins(records) == { n \in DOMAIN records : records[n] > 0 }

\* trees small enough to explore with an interfering environment
Adversarial == Len(targets) <= MaxTargets

----------------------------------------------------------------------------
(* Initial states *)

InitApp ==
    /\ pc = "idle"
    /\ batch_index = 1
    /\ walk = get_unwind_start(batched_targets[1][1].puzzle_hash)
    /\ level_coin_spends = <<>>
    /\ max_depth = 0
    /\ total_spends = 0
    /\ depth = 0
    /\ i = 0
    /\ bundle_spends = <<>>
    /\ spent_coin_names = <<>>

InitHistory ==
    /\ pushes = <<>>
    /\ spent_at_start = {}
    /\ restarts = 0
    /\ foreign = 0

InitPlanner == unwind_target = None /\ unwind_result = None
InitBuilder == default_lookup = EmptyDict /\ builds = <<>> /\ batch_calls = <<>>

\* the arguments, and line 199 of app:
\* _, parent_puzzle_lookup = secure_the_bag(targets, leaf_width)
InitInputs ==
    /\ \E c \in Configs : targets = c.targets /\ leaf_width = c.leaf_width
    /\ genesis_coin_id \in GenesisIds
    /\ unwind_fee \in Fees
    /\ LET built == secure_the_bag(targets, leaf_width, EmptyDict)
       IN  root_hash = built.root /\ parent_puzzle_lookup = built.lookup

Init ==
    /\ InitInputs
    /\ coin_records = NoRecords
    /\ mempool = {}
    /\ InitApp /\ InitHistory /\ InitPlanner /\ InitBuilder

----------------------------------------------------------------------------
(* The ledger and the other actors *)

\* the genesis coin is spent: the root coin of the tree comes into existence
Genesis ==
    /\ coin_name(RootCoin) \notin DOMAIN coin_records
    /\ coin_records' = CreateCoins(coin_records, {coin_name(RootCoin)})
    /\ UNCHANGED <<inputVars, mempool, appVars, historyVars, plannerVars, builderVars>>

\* a pending bundle is included in a block
Confirm(bundle) ==
    /\ bundle \in mempool
    /\ AllUnspent(coin_records, SpendNames(bundle.coin_spends))
    /\ coin_records' = ApplySpends(coin_records, bundle.coin_spends)
    /\ mempool' = mempool \ {bundle}
    /\ UNCHANGED <<inputVars, appVars, historyVars, plannerVars, builderVars>>

\* another actor can spend now: before the unwinder is invoked (the earlier
\* history of the tree), and a bounded number of times while it runs
ForeignTurn == Adversarial /\ (pc = "idle" \/ foreign < MaxForeign)

\* somebody else spends a tree coin (its puzzle asks for no signature)
ForeignSpend(coin_spend) ==
    /\ ForeignTurn
    /\ AllUnspent(coin_records, {coin_name(coin_spend.coin)})
    /\ coin_records' = ApplySpends(coin_records, <<coin_spend>>)
    /\ foreign' = IF pc = "idle" THEN foreign ELSE foreign + 1
    /\ UNCHANGED <<inputVars, mempool, appVars, pushes, spent_at_start, restarts,
                   plannerVars, builderVars>>

----------------------------------------------------------------------------
(* app: unwinding the entire secured bag *)

BeginRun ==
    /\ pc' = "plan"
    /\ batch_index' = 1
    /\ walk' = get_unwind_start(batched_targets[1][1].puzzle_hash)
    /\ level_coin_spends' = <<>>
    /\ max_depth' = 0
    /\ total_spends' = 0
    /\ depth' = 0
    /\ i' = 0
    /\ bundle_spends' = <<>>
    /\ spent_coin_names' = <<>>
    /\ pushes' = <<>>
    /\ spent_at_start' = SpentCoins(coin_records)

\* app is invoked
Start ==
    /\ pc = "idle"
    /\ BeginRun
    /\ UNCHANGED <<inputVars, ledgerVars, restarts, foreign, plannerVars, builderVars>>

\* the run is stopped wherever it is, and app is invoked again
Restart ==
    /\ Adversarial
    /\ pc /= "idle"
    /\ restarts < MaxRestarts
    /\ restarts' = restarts + 1
    /\ BeginRun
    /\ UNCHANGED <<inputVars, ledgerVars, foreign, plannerVars, builderVars>>

\* one iteration of get_unwind's loop for the first target of the current
\* batch; when the loop ends, the rest of the body of `for batch_targets`
PlanStep ==
    /\ pc = "plan"
    /\ \E st \in { get_unwind_step(coin_records, genesis_coin_id, parent_puzzle_lookup,
                                     walk) } :
           IF st.running
           THEN /\ walk' = st
                /\ UNCHANGED <<pc, batch_index, level_coin_spends, max_depth, total_spends>>
           ELSE \E placed \in { place_spends([level_coin_spends |-> level_coin_spends,
                                               max_depth |-> max_depth],
                                              Reverse(st.required_coin_spends), 0) } :
                    /\ total_spends' = total_spends + Len(st.required_coin_spends)
                    /\ level_coin_spends' = placed.level_coin_spends
                    /\ max_depth' = placed.max_depth
                    /\ IF batch_index < Len(batched_targets)
                       THEN /\ batch_index' = batch_index + 1
                            /\ walk' = get_unwind_start(
                                         batched_targets[batch_index + 1][1].puzzle_hash)
                            /\ pc' = pc
                       ELSE /\ walk' = st
                            /\ pc' = "level"
                            /\ UNCHANGED batch_index
    /\ UNCHANGED <<inputVars, ledgerVars, depth, i, bundle_spends, spent_coin_names,
                   historyVars, plannerVars, builderVars>>

\* one iteration of `for coin_spend in level.values()` up to the test that
\* closes the sub-batch, or the step of `for depth` when the level is exhausted
LevelStep ==
    /\ pc = "level"
    /\ LET level == LevelAt(level_coin_spends, depth)
       IN  IF i < Len(level)
           THEN /\ i' = i + 1
                /\ bundle_spends' = Append(bundle_spends, level[i + 1][2])
                /\ spent_coin_names' =
                       Append(spent_coin_names, coin_name(level[i + 1][2].coin))
                /\ pc' = IF batch_ready(Len(bundle_spends) + 1, i + 1, Len(level))
                         THEN "push" ELSE "level"
                /\ UNCHANGED depth
           ELSE /\ IF depth < max_depth
                   THEN depth' = depth + 1 /\ pc' = "level"
                   ELSE depth' = depth /\ pc' = "done"
                /\ i' = 0
                /\ bundle_spends' = <<>>
                /\ spent_coin_names' = <<>>
    /\ UNCHANGED <<inputVars, ledgerVars, batch_index, walk, level_coin_spends, max_depth,
                   total_spends, historyVars, plannerVars, builderVars>>

\* push_tx of the sub-batch, accepted by the full node
PushAccepted ==
    /\ pc = "push"
    /\ AllUnspent(coin_records, SpendNames(bundle_spends))
    /\ LET bundle == make_bundle(bundle_spends, unwind_fee)
       IN  /\ mempool' = mempool \cup {bundle}
           /\ pushes' = Append(pushes, [depth |-> depth, bundle |-> bundle])
    /\ bundle_spends' = <<>>
    /\ pc' = "wait"
    /\ UNCHANGED <<inputVars, coin_records, batch_index, walk, level_coin_spends, max_depth,
                   total_spends, depth, i, spent_coin_names, spent_at_start, restarts,
                   foreign, plannerVars, builderVars>>

\* push_tx of the sub-batch raises: a coin of it is unknown or spent
PushRejected ==
    /\ pc = "push"
    /\ ~AllUnspent(coin_records, SpendNames(bundle_spends))
    /\ pushes' = Append(pushes, [depth |-> depth,
                                 bundle |-> make_bundle(bundle_spends, unwind_fee)])
    /\ pc' = "failed"
    /\ UNCHANGED <<inputVars, ledgerVars, batch_index, walk, level_coin_spends, max_depth,
                   total_spends, depth, i, bundle_spends, spent_coin_names,
                   spent_at_start, restarts, foreign, plannerVars,
                   builderVars>>

\* a variant in which the tree spends of the sub-batch reach the full node
\* before the funding fails
FundingFails_after_tree_spends ==
    /\ pc = "push"
    /\ unwind_fee > 0
    /\ mempool' = mempool \cup {make_bundle(bundle_spends, 0)}
    /\ pc' = "failed"
    /\ UNCHANGED <<inputVars, coin_records, batch_index, walk, level_coin_spends,
                   max_depth, total_spends, depth, i, bundle_spends, spent_coin_names,
                   historyVars, plannerVars, builderVars>>

\* select_coins or create_signed_transaction raises
FundingFails ==
    /\ pc = "push"
    /\ unwind_fee > 0
    /\ pc' = "failed"
    /\ UNCHANGED <<inputVars, ledgerVars, batch_index, walk, level_coin_spends, max_depth,
                   total_spends, depth, i, bundle_spends, spent_coin_names,
                   historyVars, plannerVars, builderVars>>

\* await asyncio.gather(*coin_spend_waits): the gather returns once every
\* wait_for_coin_spend of the sub-batch has returned.  A spent coin stays
\* spent, so this is a moment at which each of the waits can return.
GatherReturns ==
    /\ pc = "wait"
    /\ \A j \in 1..Len(spent_coin_names) :
           wait_for_coin_spend_returns(coin_records, spent_coin_names[j])
    /\ spent_coin_names' = <<>>
    /\ pc' = "level"
    /\ UNCHANGED <<inputVars, ledgerVars, batch_index, walk, level_coin_spends, max_depth,
                   total_spends, depth, i, bundle_spends, historyVars, plannerVars,
                   builderVars>>

Ledger ==
    \/ Genesis
    \/ \E bundle \in mempool : Confirm(bundle)
    \/ ForeignTurn /\ \E coin_spend \in TreeSpends : ForeignSpend(coin_spend)

Unwinder ==
    \/ Start
    \/ Restart
    \/ PlanStep
    \/ LevelStep
    \/ PushAccepted
    \/ PushRejected
    \/ FundingFails
    \/ GatherReturns

Next == Ledger \/ Unwinder

Spec == Init /\ [][Next]_vars

----------------------------------------------------------------------------
(* The unwinder on a ledger whose coin records do not change while the run   *)
(* plans: between the first query of the first unwind_the_bag and the return *)
(* of the last.  Before and after, the ledger moves as in Spec.              *)

LedgerQuiet ==
    \/ pc /= "plan" /\ Genesis
    \/ pc /= "plan" /\ \E bundle \in mempool : Confirm(bundle)
    \/ pc /= "plan" /\ ForeignTurn
           /\ \E coin_spend \in TreeSpends : ForeignSpend(coin_spend)

NextQuiet == LedgerQuiet \/ Unwinder

SpecQuiet == Init /\ [][NextQuiet]_vars

----------------------------------------------------------------------------
(* The unwinder on a ledger that knows no coin of the tree: the genesis coin *)
(* is not spent yet, so every query answers None and every push is rejected. *)

NextNoCoins ==
    \/ Start
    \/ PlanStep
    \/ LevelStep
    \/ PushRejected
    \/ FundingFails

SpecNoCoins == Init /\ [][NextNoCoins]_vars

----------------------------------------------------------------------------
(* The unwinder alone on a cooperative ledger: the root coin exists unspent, *)
(* nobody else spends, every accepted bundle is eventually included, the     *)
(* wallet funds every fee.                                                   *)

InitLive ==
    /\ InitInputs
    /\ coin_records = CreateCoins(NoRecords, {coin_name(RootCoin)})
    /\ mempool = {}
    /\ InitApp /\ InitHistory /\ InitPlanner /\ InitBuilder

UnwinderLive ==
    \/ Start
    \/ PlanStep
    \/ LevelStep
    \/ PushAccepted
    \/ GatherReturns

LedgerLive == \E bundle \in mempool : Confirm(bundle)

NextLive == UnwinderLive \/ LedgerLive

SpecLive == InitLive /\ [][NextLive]_vars /\ WF_vars(UnwinderLive) /\ WF_vars(LedgerLive)

----------------------------------------------------------------------------
(* The planner called for one target on the ledger as it stands *)

\* the puzzle hashes a caller can name: every leaf, every node, the root
UnwindTargets == { k[2] : k \in DictKeys(parent_puzzle_lookup) } \cup {root_hash}

\* app with an unwind target: the call of unwind_the_bag.  The result keeps
\* the coin records the call saw, the walk as get_unwind left it and the
\* returned list.
UnwindTarget(unwind_target_puzzle_hash_bytes) ==
    /\ pc = "idle"
    /\ unwind_target' = Some(unwind_target_puzzle_hash_bytes)
    /\ unwind_result' =
           Some([records |-> coin_records,
                 walk |-> get_unwind(coin_records, genesis_coin_id, parent_puzzle_lookup,
                                     unwind_target_puzzle_hash_bytes),
                 coin_spends |-> unwind_the_bag(coin_records,
                                                unwind_target_puzzle_hash_bytes,
                                                genesis_coin_id, parent_puzzle_lookup)])
    /\ UNCHANGED <<inputVars, ledgerVars, appVars, historyVars, builderVars>>

\* the ledger moves until the call is made; the result holds the coin records
\* of the call
NextPlanner ==
    \/ unwind_target = None /\ Genesis
    \/ unwind_target = None /\ ForeignTurn
           /\ \E coin_spend \in TreeSpends : ForeignSpend(coin_spend)
    \/ unwind_target = None
           /\ \E target_puzzle_hash \in UnwindTargets : UnwindTarget(target_puzzle_hash)

SpecPlanner == Init /\ [][NextPlanner]_vars

----------------------------------------------------------------------------
(* app: unwinding to a single target.  The spends unwind_the_bag returned    *)
(* are kept in unwind_result, i is the position of the `for coin_spend`      *)
(* loop in them, spent_coin_names holds the coin name the running            *)
(* wait_for_coin_spend was called with.                                      *)

\* app is invoked with an unwind target; the first query of get_unwind is next
StartTarget(unwind_target_puzzle_hash_bytes) ==
    /\ pc = "idle"
    /\ unwind_target' = Some(unwind_target_puzzle_hash_bytes)
    /\ unwind_result' = None
    /\ walk' = get_unwind_start(unwind_target_puzzle_hash_bytes)
    /\ pc' = "target_plan"
    /\ spent_at_start' = SpentCoins(coin_records)
    /\ UNCHANGED <<inputVars, ledgerVars, batch_index, level_coin_spends, max_depth,
                   total_spends, depth, i, bundle_spends, spent_coin_names, pushes,
                   restarts, foreign, builderVars>>

\* one iteration of get_unwind's loop inside unwind_the_bag; when the loop
\* ends, the reversed list is returned and the `for coin_spend` loop begins
TargetPlanStep ==
    /\ pc = "target_plan"
    /\ \E st \in { get_unwind_step(coin_records, genesis_coin_id, parent_puzzle_lookup,
                                     walk) } :
           /\ walk' = st
           /\ IF st.running
              THEN UNCHANGED <<pc, i, unwind_result>>
              ELSE /\ unwind_result' = Some([records |-> coin_records,
                                              walk |-> st,
                                              coin_spends |->
                                                  Reverse(st.required_coin_spends)])
                   /\ i' = 1
                   /\ pc' = IF st.required_coin_spends = <<>>
                            THEN "target_mint" ELSE "target_push"
    /\ UNCHANGED <<inputVars, ledgerVars, batch_index, level_coin_spends, max_depth,
                   total_spends, depth, bundle_spends, spent_coin_names, historyVars,
                   unwind_target, builderVars>>

\* push_tx of the bundle of this iteration, accepted; wait_for_coin_spend is
\* called with the name of the coin of the spend
TargetPushAccepted ==
    /\ pc = "target_push"
    /\ \E bundle \in { single_bundle(unwind_result[1].coin_spends, i, unwind_fee) } :
           /\ AllUnspent(coin_records, SpendNames(bundle.coin_spends))
           /\ mempool' = mempool \cup {bundle}
           /\ pushes' = Append(pushes, [depth |-> i - 1, bundle |-> bundle])
    /\ spent_coin_names' = <<coin_name(unwind_result[1].coin_spends[i].coin)>>
    /\ pc' = "wait_poll"
    /\ UNCHANGED <<inputVars, coin_records, batch_index, walk, level_coin_spends, max_depth,
                   total_spends, depth, i, bundle_spends, spent_at_start, restarts,
                   foreign, plannerVars, builderVars>>

\* push_tx of the bundle of this iteration raises: a coin of it is unknown or
\* spent
TargetPushRejected ==
    /\ pc = "target_push"
    /\ \E bundle \in { single_bundle(unwind_result[1].coin_spends, i, unwind_fee) } :
           /\ ~AllUnspent(coin_records, SpendNames(bundle.coin_spends))
           /\ pushes' = Append(pushes, [depth |-> i - 1, bundle |-> bundle])
    /\ pc' = "failed"
    /\ UNCHANGED <<inputVars, ledgerVars, batch_index, walk, level_coin_spends, max_depth,
                   total_spends, depth, i, bundle_spends, spent_coin_names,
                   spent_at_start, restarts, foreign, plannerVars, builderVars>>

\* select_coins or create_signed_transaction raises in this iteration
TargetFundingFails ==
    /\ pc = "target_push"
    /\ unwind_fee > 0
    /\ pc' = "failed"
    /\ UNCHANGED <<inputVars, ledgerVars, batch_index, walk, level_coin_spends, max_depth,
                   total_spends, depth, i, bundle_spends, spent_coin_names,
                   historyVars, plannerVars, builderVars>>

\* wait_for_coin_spend: one pass through the body of its loop
WaitPoll ==
    /\ pc = "wait_poll"
    /\ \E outcome \in { wait_for_coin_spend_step(coin_records, spent_coin_names[1]) } :
           pc' = CASE outcome = "continue" -> "wait_poll"
                   [] outcome = "break" -> "wait_returned"
                   [] outcome = "sleep" -> "wait_sleep"
    /\ UNCHANGED <<inputVars, ledgerVars, batch_index, walk, level_coin_spends, max_depth,
                   total_spends, depth, i, bundle_spends, spent_coin_names,
                   historyVars, plannerVars, builderVars>>

\* wait_for_coin_spend: asyncio.sleep(3) is over, the loop queries again
WaitWake ==
    /\ pc = "wait_sleep"
    /\ pc' = "wait_poll"
    /\ UNCHANGED <<inputVars, ledgerVars, batch_index, walk, level_coin_spends, max_depth,
                   total_spends, depth, i, bundle_spends, spent_coin_names,
                   historyVars, plannerVars, builderVars>>

\* wait_for_coin_spend has returned to the `for coin_spend` loop, which takes
\* the next planned spend or ends
TargetNext ==
    /\ pc = "wait_returned"
    /\ unwind_result /= None
    /\ IF i < Len(unwind_result[1].coin_spends)
       THEN i' = i + 1 /\ pc' = "target_push"
       ELSE i' = i /\ pc' = "target_mint"
    /\ UNCHANGED <<inputVars, ledgerVars, batch_index, walk, level_coin_spends, max_depth,
                   total_spends, depth, bundle_spends, spent_coin_names,
                   historyVars, plannerVars, builderVars>>

\* the coin the first mint spend of a target spends: the pre-launcher coin,
\* of amount 1, under the coin that creates the target's puzzle hash
pre_launcher_coin(pre_launcher_parent_id, puzzle_hash) ==
    Coin(pre_launcher_parent_id, puzzle_hash, 1)

\* after the loop: the mint spends of the target are pushed unless its
\* pre-launcher coin is recorded as spent.  The statements raise when the
\* target has no parent in the lookup, when it is no key of mint_spends, and
\* when the ledger does not know the pre-launcher coin.
TargetMint ==
    /\ pc = "target_mint"
    /\ \E parent \in { parent_of_puzzle_hash(genesis_coin_id, unwind_target[1],
                                              parent_puzzle_lookup) } :
           IF \/ parent.coin_spend = None
              \/ unwind_target[1] \notin { targets[k].puzzle_hash : k \in 1..Len(targets) }
           THEN pc' = "failed" /\ UNCHANGED mempool
           ELSE \E coin \in { pre_launcher_coin(parent.name, unwind_target[1]) } :
                  \E response \in { get_coin_record_by_name(coin_records,
                                                            coin_name(coin)) } :
                    IF response = None
                    THEN pc' = "failed" /\ UNCHANGED mempool
                    ELSE /\ pc' = "done"
                         /\ mempool' =
                              IF response[1].spent_block_index = 0
                              THEN mempool \cup
                                     { [coin_spends |->
                                           <<CoinSpend(coin, Program_quote(<<>>), <<>>)>>,
                                        fee |-> None] }
                              ELSE mempool
    /\ UNCHANGED <<inputVars, coin_records, batch_index, walk, level_coin_spends,
                   max_depth, total_spends, depth, i, bundle_spends, spent_coin_names,
                   historyVars, plannerVars, builderVars>>

UnwinderTarget ==
    \/ \E target_puzzle_hash \in UnwindTargets : StartTarget(target_puzzle_hash)
    \/ TargetPlanStep
    \/ TargetPushAccepted
    \/ TargetPushRejected
    \/ TargetFundingFails
    \/ WaitPoll
    \/ WaitWake
    \/ TargetNext
    \/ TargetMint

NextTarget == Ledger \/ UnwinderTarget

SpecTarget == Init /\ [][NextTarget]_vars

----------------------------------------------------------------------------
(* wait_for_coin_spend called for one coin of the tree, on a ledger that it  *)
(* does not control.  The scheduler runs the coroutine again whenever it can *)
(* go on: after a query has answered and after a sleep is over.              *)

\* the coins of the tree: the nodes and the coins that pay the targets
TreeCoinNames ==
    { coin_name(coin_spend.coin) : coin_spend \in TreeSpends }
    \cup { coin_name(Coin(parent_of_puzzle_hash(genesis_coin_id, targets[j].puzzle_hash,
                                                parent_puzzle_lookup).name,
                          targets[j].puzzle_hash, targets[j].amount)) :
           j \in 1..Len(targets) }

\* wait_for_coin_spend(full_node_client, coin_name) is called
WaitCall(name) ==
    /\ pc = "idle"
    /\ spent_coin_names' = <<name>>
    /\ pc' = "wait_poll"
    /\ UNCHANGED <<inputVars, ledgerVars, batch_index, walk, level_coin_spends, max_depth,
                   total_spends, depth, i, bundle_spends, historyVars, plannerVars,
                   builderVars>>

WaitLoop == WaitPoll \/ WaitWake

NextWait ==
    \/ Genesis
    \/ ForeignTurn /\ \E coin_spend \in TreeSpends : ForeignSpend(coin_spend)
    \/ \E name \in TreeCoinNames : WaitCall(name)
    \/ WaitPoll
    \/ WaitWake

SpecWait == Init /\ [][NextWait]_vars /\ WF_vars(WaitLoop)

----------------------------------------------------------------------------
(* wait_for_unspent_coin called for one coin of the tree, on a ledger that   *)
(* it does not control; spent_coin_names holds the coin name of the call.    *)

\* wait_for_unspent_coin(full_node_client, coin_name) is called
UnspentCall(name) ==
    /\ pc = "idle"
    /\ spent_coin_names' = <<name>>
    /\ pc' = "unspent_poll"
    /\ UNCHANGED <<inputVars, ledgerVars, batch_index, walk, level_coin_spends, max_depth,
                   total_spends, depth, i, bundle_spends, historyVars, plannerVars,
                   builderVars>>

\* one pass through the body of the loop: the call of unspent_coin_exists
\* and what follows from its answer
UnspentPoll ==
    /\ pc = "unspent_poll"
    /\ \E outcome \in { wait_for_unspent_coin_step(coin_records, spent_coin_names[1]) } :
           pc' = CASE outcome = "raise" -> "unspent_raised"
                   [] outcome = "break" -> "unspent_returned"
                   [] outcome = "sleep" -> "unspent_sleep"
    /\ UNCHANGED <<inputVars, ledgerVars, batch_index, walk, level_coin_spends, max_depth,
                   total_spends, depth, i, bundle_spends, spent_coin_names,
                   historyVars, plannerVars, builderVars>>

\* asyncio.sleep(3) is over, the loop calls unspent_coin_exists again
UnspentWake ==
    /\ pc = "unspent_sleep"
    /\ pc' = "unspent_poll"
    /\ UNCHANGED <<inputVars, ledgerVars, batch_index, walk, level_coin_spends, max_depth,
                   total_spends, depth, i, bundle_spends, spent_coin_names,
                   historyVars, plannerVars, builderVars>>

UnspentLoop == UnspentPoll \/ UnspentWake

NextUnspent ==
    \/ Genesis
    \/ ForeignTurn /\ \E coin_spend \in TreeSpends : ForeignSpend(coin_spend)
    \/ \E name \in TreeCoinNames : UnspentCall(name)
    \/ UnspentPoll
    \/ UnspentWake

SpecUnspent == Init /\ [][NextUnspent]_vars /\ WF_vars(UnspentLoop)

----------------------------------------------------------------------------
(* The builder called several times in one process *)

\* the most leaves of a list handed to the builder
MaxBuildTargets == 3

BuildWidths == {2, 3}

\* the same puzzle hashes paying other amounts
Repriced(n) == [k \in 1..n |-> Target(<<"ph", k>>, k + n)]

BuildLists == { Leaves(n) : n \in 1..MaxBuildTargets } \cup { Repriced(MaxBuildTargets) }

\* secure_the_bag(targets, leaf_width): the parameter parent_puzzle_lookup is
\* the dict made when the function was defined, and the call writes into it
BuildDefault(ts, w) ==
    /\ Len(builds) < MaxBuilds
    /\ \E built \in { secure_the_bag(ts, w, default_lookup) } :
           /\ default_lookup' = built.lookup
           /\ builds' = Append(builds, [targets |-> ts, leaf_width |-> w,
                                        by_default |-> TRUE,
                                        raised |-> built.raised, root |-> built.root,
                                        lookup |-> built.lookup])
    /\ UNCHANGED <<inputVars, ledgerVars, appVars, historyVars, plannerVars,
                   batch_calls>>

\* secure_the_bag(targets, leaf_width, {}): the caller passes a new dict
BuildExplicit(ts, w) ==
    /\ Len(builds) < MaxBuilds
    /\ \E built \in { secure_the_bag(ts, w, EmptyDict) } :
           builds' = Append(builds, [targets |-> ts, leaf_width |-> w,
                                     by_default |-> FALSE,
                                     raised |-> built.raised, root |-> built.root,
                                     lookup |-> built.lookup])
    /\ UNCHANGED <<inputVars, ledgerVars, appVars, historyVars, plannerVars,
                   default_lookup, batch_calls>>

InitBuild ==
    /\ targets = Leaves(1) /\ leaf_width = 2
    /\ genesis_coin_id \in GenesisIds
    /\ unwind_fee = 0
    /\ \E built \in { secure_the_bag(targets, leaf_width, EmptyDict) } :
           root_hash = built.root /\ parent_puzzle_lookup = built.lookup
    /\ coin_records = NoRecords
    /\ mempool = {}
    /\ InitApp /\ InitHistory /\ InitPlanner /\ InitBuilder

NextBuild ==
    \/ \E ts \in BuildLists, w \in BuildWidths : BuildDefault(ts, w)
    \/ \E ts \in BuildLists, w \in BuildWidths : BuildExplicit(ts, w)

SpecBuild == InitBuild /\ [][NextBuild]_vars

(***************************************************************************)
(* Single calls of batch_the_bag, on lists from empty to MaxTargets leaves *)
(* and with every width from 1.                                            *)
(***************************************************************************)
MaxCalls == 2

AnyWidths == 1..MaxWidth

BatchLists == { Leaves(n) : n \in 0..MaxTargets }

\* batch_the_bag(ts, w)
BatchTheBag(ts, w) ==
    /\ Len(batch_calls) < MaxCalls
    /\ batch_calls' = Append(batch_calls, [targets |-> ts, leaf_width |-> w,
                                           results |-> batch_the_bag(ts, w)])
    /\ UNCHANGED <<inputVars, ledgerVars, appVars, historyVars, plannerVars,
                   default_lookup, builds>>

NextBatch == \E ts \in BatchLists, w \in AnyWidths : BatchTheBag(ts, w)

SpecBatch == InitBuild /\ [][NextBatch]_vars

(***************************************************************************)
(* Calls of secure_the_bag(targets, leaf_width) on lists of 1 to           *)
(* MaxTargets leaves with every width from 2, each kept with the record of *)
(* its recursion.                                                          *)
(***************************************************************************)
LevelLists == { Leaves(n) : n \in 1..MaxTargets }

LevelWidths == 2..MaxWidth

\* secure_the_bag(ts, w), as every caller in the repository calls it
BuildTraced(ts, w) ==
    /\ Len(builds) < MaxCalls
    /\ \E built \in { secure_the_bag(ts, w, default_lookup) } :
           /\ default_lookup' = built.lookup
           /\ builds' = Append(builds, [targets |-> ts, leaf_width |-> w,
                                        by_default |-> TRUE,
                                        raised |-> built.raised, root |-> built.root,
                                        lookup |-> built.lookup,
                                        levels |-> secure_the_bag_levels(
                                                       ts, w, default_lookup, 0)])
    /\ UNCHANGED <<inputVars, ledgerVars, appVars, historyVars, plannerVars,
                   batch_calls>>

NextLevels == \E ts \in LevelLists, w \in LevelWidths : BuildTraced(ts, w)

SpecLevels == InitBuild /\ [][NextLevels]_vars

(***************************************************************************)
(* The two commands run with their default options, each in a process of   *)
(* its own (the default dict of secure_the_bag is empty when the command   *)
(* calls it), on lists of up to MaxBuildTargets leaves and on lists that   *)
(* fill one batch of the commit command and one more than fill it.         *)
(***************************************************************************)
\* the default of --leaf-width of the commit command
commit_leaf_width == 25

\* the default of --leaf-width of the unwind command
unwind_leaf_width == 100

CommandLists ==
    { Leaves(n) : n \in (1..MaxBuildTargets) \cup {commit_leaf_width, commit_leaf_width + 1} }

\* a command calls secure_the_bag(targets, leaf_width) in a new process
RunCommand(command, ts, w) ==
    /\ Len(builds) < MaxCalls
    /\ \E built \in { secure_the_bag(ts, w, EmptyDict) } :
           builds' = Append(builds, [command |-> command,
                                     targets |-> ts, leaf_width |-> w,
                                     by_default |-> TRUE,
                                     raised |-> built.raised, root |-> built.root,
                                     lookup |-> built.lookup])
    /\ UNCHANGED <<inputVars, ledgerVars, appVars, historyVars, plannerVars,
                   default_lookup, batch_calls>>

\* the commit command, secure_the_bag.py, without --leaf-width
CommitCommand(ts) == RunCommand("commit", ts, commit_leaf_width)

\* the unwind command, unwind_the_bag.py, without --leaf-width
UnwindCommand(ts) == RunCommand("unwind", ts, unwind_leaf_width)

NextCommands ==
    \/ \E ts \in CommandLists : CommitCommand(ts)
    \/ \E ts \in CommandLists : UnwindCommand(ts)

SpecCommands == InitBuild /\ [][NextCommands]_vars

----------------------------------------------------------------------------
(* Properties of the full-tree unwind *)

RecordedSpent(name) == name \in DOMAIN coin_records /\ coin_records[name] > 0

\* the coins planned at a depth
LevelCoins(index) ==
    { LevelAt(level_coin_spends, index)[j][2].coin :
        j \in 1..Len(LevelAt(level_coin_spends, index)) }

\* the coins of the bundles this run handed to push_tx
PushedCoins ==
    UNION { { pushes[k].bundle.coin_spends[j].coin :
                j \in 1..Len(pushes[k].bundle.coin_spends) } : k \in 1..Len(pushes) }

\* C1: no pushed bundle holds a tree coin whose parent tree coin is not
\* recorded as spent; every spend planned at a level above 0 has the spend of
\* its parent coin at the level before; and while the run works on a level,
\* every coin of every earlier level is recorded as spent.
C1_LevelsInOrder ==
    /\ \A coin \in PushedCoins :
           coin.parent_coin_info = genesis_coin_id \/ RecordedSpent(coin.parent_coin_info)
    /\ \A index \in 1..(Len(level_coin_spends) - 1) :
           \A coin \in LevelCoins(index) :
               \E parent \in LevelCoins(index - 1) :
                   coin_name(parent) = coin.parent_coin_info
    /\ \A earlier \in 0..(depth - 1) :
           \A coin \in LevelCoins(earlier) : RecordedSpent(coin_name(coin))

\* a sub-batch of a level above 0 has been pushed and accepted
C1_Witness ==
    /\ pc = "wait"
    /\ depth >= 1
    /\ Len(pushes) >= 2
    /\ pushes[Len(pushes)].depth = depth

\* C2: a run never plans and never pushes a spend of a coin that was recorded
\* as spent when the run began, and a run that begins on a tree all of whose
\* node coins are spent pushes nothing.
C2_RerunSkipsSpent ==
    /\ \A coin \in PushedCoins : coin_name(coin) \notin spent_at_start
    /\ \A index \in 0..(Len(level_coin_spends) - 1) :
           \A coin \in LevelCoins(index) : coin_name(coin) \notin spent_at_start
    /\ pushes /= <<>>
           => \E coin_spend \in TreeSpends : coin_name(coin_spend.coin) \notin spent_at_start

\* a re-invoked run that began with spent coins on the ledger has pushed
C2_Witness ==
    /\ restarts >= 1
    /\ spent_at_start /= {}
    /\ Len(pushes) >= 1

\* the coin that pays a target
LeafCoin(target) ==
    LET parent == parent_of_puzzle_hash(genesis_coin_id, target.puzzle_hash,
                                        parent_puzzle_lookup)
    IN  IF parent.coin_spend = None THEN RootCoin
        ELSE Coin(parent.name, target.puzzle_hash, target.amount)

FullyUnwound ==
    /\ \A coin_spend \in TreeSpends : RecordedSpent(coin_name(coin_spend.coin))
    /\ \A j \in 1..Len(targets) : coin_name(LeafCoin(targets[j])) \in DOMAIN coin_records

----------------------------------------------------------------------------
(* Properties of the planner *)

\* the spends of the ancestors of a puzzle hash, its parent first, the root last
RECURSIVE AncestorSpends(_)
AncestorSpends(puzzle_hash) ==
    LET parent == parent_of_puzzle_hash(genesis_coin_id, puzzle_hash, parent_puzzle_lookup)
    IN  IF parent.coin_spend = None THEN <<>>
        ELSE <<parent.coin_spend[1]>> \o AncestorSpends(parent.coin_spend[1].coin.puzzle_hash)

\* what the ledger of the call said about a coin
StatusIn(records, coin) ==
    IF coin_name(coin) \notin DOMAIN records THEN "unknown"
    ELSE IF records[coin_name(coin)] = 0 THEN "unspent" ELSE "spent"

Called == unwind_result /= None
PlanTarget == unwind_target[1]
PlanChain == AncestorSpends(PlanTarget)
PlanStatus(j) == StatusIn(unwind_result[1].records, PlanChain[j].coin)
PlanWalk == unwind_result[1].walk
PlanSpends == unwind_result[1].coin_spends

\* the position in the chain of the lowest ancestor that exists unspent
LowestUnspent ==
    CHOOSE j \in 1..Len(PlanChain) :
        PlanStatus(j) = "unspent" /\ \A below \in 1..(j - 1) : PlanStatus(below) /= "unspent"

HasUnspent == \E j \in 1..Len(PlanChain) : PlanStatus(j) = "unspent"

\* C4: the list get_unwind collects is the chain of ancestors from the
\* target's parent up to the lowest ancestor that exists unspent, and the
\* whole chain up to the root when the ledger knows no ancestor.
C4_WalkCollectsChain ==
    Called =>
        /\ HasUnspent =>
               PlanWalk.required_coin_spends = SubSeq(PlanChain, 1, LowestUnspent)
        /\ (\A j \in 1..Len(PlanChain) : PlanStatus(j) = "unknown") =>
               PlanWalk.required_coin_spends = PlanChain

\* the walk passed an unknown coin and stopped at an unspent one
C4_Witness ==
    /\ Called
    /\ Len(PlanChain) >= 2
    /\ PlanStatus(1) = "unknown"
    /\ PlanStatus(2) = "unspent"
    /\ Len(PlanWalk.required_coin_spends) = 2

\* C5: in the list unwind_the_bag returns, each spend's coin is the parent of
\* the next spend's coin, and the last spend is that of the coin that creates
\* the target.
C5_RootToTargetOrder ==
    Called =>
        /\ \A j \in 1..(Len(PlanSpends) - 1) :
               PlanSpends[j + 1].coin.parent_coin_info = coin_name(PlanSpends[j].coin)
        /\ Len(PlanSpends) > 0 =>
               PlanSpends[Len(PlanSpends)] =
                   parent_of_puzzle_hash(genesis_coin_id, PlanTarget,
                                         parent_puzzle_lookup).coin_spend[1]

\* a returned list of three spends
C5_Witness == Called /\ Len(PlanSpends) >= 3

\* C6: when the first ancestor the ledger knows is recorded as spent, the
\* walk ends there: the spend of that coin is not collected, the warning is
\* given and the call returns the spends collected before it.
C6_SpentEndsWalk ==
    Called =>
        \A j \in 1..Len(PlanChain) :
            (PlanStatus(j) = "spent" /\ \A below \in 1..(j - 1) : PlanStatus(below) = "unknown")
            => /\ PlanWalk.required_coin_spends = SubSeq(PlanChain, 1, j - 1)
               /\ PlanWalk.warned
               /\ ~PlanWalk.running
               /\ PlanSpends = Reverse(SubSeq(PlanChain, 1, j - 1))

\* a call whose target's parent coin is recorded as spent
C6_Witness ==
    /\ Called
    /\ Len(PlanChain) >= 2
    /\ PlanStatus(1) = "spent"
    /\ PlanWalk.warned

\* the depth of the target's coin, the root coin being at depth 0
TargetDepth == Len(PlanChain)
\* the depth of the frontier of the target's chain
FrontierDepth == TargetDepth - LowestUnspent

\* the spend creates the coin the chain has at the depth
CreatesChainCoinAt(coin_spend, at_depth) ==
    IF at_depth = TargetDepth
    THEN \E coin \in additions(coin_spend) : coin.puzzle_hash = PlanTarget
    ELSE PlanChain[TargetDepth - at_depth].coin \in additions(coin_spend)

\* C7: with the frontier of the target's chain at depth k, the returned list
\* holds exactly one spend for each depth above k down to the target's, the
\* spend that brings the chain's coin of that depth into existence, and no
\* spend of a coin recorded as spent.
C7_PlanFromFrontier ==
    (Called /\ HasUnspent) =>
        /\ Len(PlanSpends) = TargetDepth - FrontierDepth
        /\ \A at_depth \in (FrontierDepth + 1)..TargetDepth :
               CreatesChainCoinAt(PlanSpends[at_depth - FrontierDepth], at_depth)
        /\ \A j \in 1..Len(PlanSpends) :
               StatusIn(unwind_result[1].records, PlanSpends[j].coin) /= "spent"

\* a call with the frontier below the root and two levels above the target
C7_Witness ==
    /\ Called
    /\ HasUnspent
    /\ FrontierDepth >= 1
    /\ TargetDepth - FrontierDepth >= 2

\* C8: on a ledger that knows no coin of the tree the returned list has one
\* spend per ancestor, the root coin's first (two spends for the first leaf of
\* the tree of three leaves and width 2); with the root coin and the target's
\* parent coin recorded as spent the list is empty.
C8_EmptyLedgerAndUnwound ==
    Called =>
        /\ (\A coin_spend \in TreeSpends :
                StatusIn(unwind_result[1].records, coin_spend.coin) = "unknown")
           => /\ PlanSpends = Reverse(PlanChain)
              /\ Len(PlanSpends) > 0 => PlanSpends[1].coin = RootCoin
              /\ (targets = Leaves(3) /\ leaf_width = 2 /\ PlanTarget = Leaf(1).puzzle_hash)
                 => Len(PlanSpends) = 2
        /\ (/\ Len(PlanChain) > 0
            /\ PlanStatus(1) = "spent"
            /\ StatusIn(unwind_result[1].records, RootCoin) = "spent")
           => Len(PlanSpends) = 0

\* the call for the first of three leaves, width 2, on the empty ledger
C8_Witness ==
    /\ Called
    /\ targets = Leaves(3) /\ leaf_width = 2 /\ PlanTarget = Leaf(1).puzzle_hash
    /\ unwind_result[1].records = NoRecords
    /\ Len(PlanSpends) = 2

----------------------------------------------------------------------------
(* Properties of the builder and of the coins of the tree *)

\* C9: any two builds of one target list with one width return the same root,
\* whichever of them rely on the default lookup and whatever was built between.
C9_SameRoot ==
    \A a \in 1..Len(builds), b \in 1..Len(builds) :
        (builds[a].targets = builds[b].targets /\ builds[a].leaf_width = builds[b].leaf_width)
        => builds[a].root = builds[b].root /\ builds[a].raised = builds[b].raised

\* two builds of one list on the default lookup, another list built between
C9_Witness ==
    /\ Len(builds) = 3
    /\ \A a \in 1..3 : builds[a].by_default
    /\ Len(builds[1].targets) > 1
    /\ builds[1].targets = builds[3].targets
    /\ builds[1].leaf_width = builds[3].leaf_width
    /\ builds[2].targets /= builds[1].targets

\* the sum of the amounts of the coins a node's puzzle creates
RECURSIVE SumCreated(_, _)
SumCreated(conditions, j) ==
    IF j > Len(conditions) THEN 0
    ELSE (IF conditions[j][1] = "CREATE_COIN" THEN conditions[j][3] ELSE 0)
         + SumCreated(conditions, j + 1)

\* the identity of the coin of a node: the hash of its parent's identity, its
\* puzzle hash and its amount, from the genesis reference and amount 0 at the root
RECURSIVE IdentityOf(_)
IdentityOf(node) ==
    IF node.puzzle_hash = root_hash
    THEN <<"coin", genesis_coin_id, node.puzzle_hash, 0>>
    ELSE <<"coin", IdentityOf(DictGet(parent_puzzle_lookup, hex(node.puzzle_hash))[1]),
           node.puzzle_hash, SumCreated(node.puzzle[2], 1)>>

\* C10: for every puzzle hash of the lookup, parent_of_puzzle_hash returns the
\* coin of the parent node under the identity recursion: parent identity the
\* genesis reference and amount 0 for the root node, the name of the node's own
\* parent coin and the node's summed amount for any other; amount 0 for the
\* root node only.
C10_CoinIdentity ==
    \A k \in DictKeys(parent_puzzle_lookup) :
        LET node == DictGet(parent_puzzle_lookup, k)[1]
            found == parent_of_puzzle_hash(genesis_coin_id, k[2], parent_puzzle_lookup)
            coin == found.coin_spend[1].coin
        IN  /\ found.name = IdentityOf(node)
            /\ coin_name(coin) = found.name
            /\ coin.puzzle_hash = node.puzzle_hash
            /\ found.coin_spend[1].puzzle_reveal = node.puzzle
            /\ IF node.puzzle_hash = root_hash
               THEN coin.parent_coin_info = genesis_coin_id /\ coin.amount = 0
               ELSE /\ coin.parent_coin_info =
                          IdentityOf(DictGet(parent_puzzle_lookup, hex(node.puzzle_hash))[1])
                    /\ coin.amount = SumCreated(node.puzzle[2], 1)
                    /\ coin.amount > 0

\* a call returned the root coin with amount 0 and a node coin below it
C10_Witness ==
    /\ Called
    /\ Len(PlanSpends) >= 2
    /\ PlanSpends[1].coin = RootCoin
    /\ PlanSpends[1].coin.amount = 0
    /\ PlanSpends[2].coin.amount > 0

\* puzzle hashes the lookup has no entry for: the root, and a hash of no tree
AbsentHashes == { h \in {root_hash, <<"ph", 0>>} : DictGet(parent_puzzle_lookup, hex(h)) = None }

\* C11: for a puzzle hash without a lookup entry parent_of_puzzle_hash returns
\* no spend and the genesis coin name itself; for a hash with an entry the
\* returned name is the name of the coin of the returned spend, and the spend
\* carries the entry's puzzle as reveal with the empty solution.
C11_AbsentAndPresent ==
    /\ \A h \in AbsentHashes :
           parent_of_puzzle_hash(genesis_coin_id, h, parent_puzzle_lookup)
               = [coin_spend |-> None, name |-> genesis_coin_id]
    /\ \A k \in DictKeys(parent_puzzle_lookup) :
           LET found == parent_of_puzzle_hash(genesis_coin_id, k[2], parent_puzzle_lookup)
           IN  /\ found.coin_spend /= None
               /\ found.name = coin_name(found.coin_spend[1].coin)
               /\ found.coin_spend[1].puzzle_reveal = DictGet(parent_puzzle_lookup, k)[1].puzzle
               /\ found.coin_spend[1].solution = <<>>
    /\ (Called /\ PlanTarget \in AbsentHashes) => PlanSpends = <<>>

\* a call for the root of a tree with nodes: the lookup has no entry for it
C11_Witness ==
    /\ Called
    /\ Len(parent_puzzle_lookup) > 0
    /\ PlanTarget = root_hash
    /\ PlanTarget \in AbsentHashes
    /\ PlanSpends = <<>>

----------------------------------------------------------------------------
(* Properties of the tree the builder makes *)

\* the sum of the amounts of a sequence of targets
RECURSIVE SumAmounts(_, _)
SumAmounts(ts, j) == IF j > Len(ts) THEN 0 ELSE ts[j].amount + SumAmounts(ts, j + 1)

\* the puzzle of the node of a batch: the quoted list of the announcement and
\* one create-coin condition per member
NodePuzzle(batch) ==
    <<"q", <<<<"CREATE_COIN_ANNOUNCEMENT", "$">>>> \o
           [j \in 1..Len(batch) |->
               <<"CREATE_COIN", batch[j].puzzle_hash, batch[j].amount,
                 <<batch[j].puzzle_hash>>>>]>>

\* the nodes of the level above a level of the tree, one per batch
LevelAbove(level, w) ==
    LET batches == batch_the_bag(level, w)
    IN  [b \in 1..Len(batches) |->
            [puzzle_hash |-> <<"sha256tree", NodePuzzle(batches[b])>>,
             amount |-> SumAmounts(batches[b], 1)]]

\* the levels of the tree of a target list, the leaves first, the root last
RECURSIVE TreeLevels(_, _, _)
TreeLevels(level, w, fuel) ==
    IF Len(level) <= 1 \/ fuel = 0 THEN <<level>>
    ELSE <<level>> \o TreeLevels(LevelAbove(level, w), w, fuel - 1)

\* the builds that returned
Returned == { a \in 1..Len(builds) : builds[a].raised = "" }

\* the call just made, when it returned: every call is the latest one in the
\* state it returns to
LatestReturned == { a \in Returned : a = Len(builds) }

BuildLevels(a) == TreeLevels(builds[a].targets, builds[a].leaf_width, RecursionLimit)

\* C12: after a call of secure_the_bag, every member of every batch of every
\* level is a key of the returned lookup exactly once, and its entry is the
\* node of its batch:
\* the entry holds the member, the batch's puzzle, the hash of that puzzle and
\* the batch's total amount.
C12_LookupHoldsEveryMember ==
    \A a \in LatestReturned :
        \A l \in 1..(Len(BuildLevels(a)) - 1) :
            LET batches == batch_the_bag(BuildLevels(a)[l], builds[a].leaf_width)
            IN  \A b \in 1..Len(batches) : \A j \in 1..Len(batches[b]) :
                    LET member == batches[b][j]
                        key == <<"hex", member.puzzle_hash>>
                        at == { n \in 1..Len(builds[a].lookup) : builds[a].lookup[n][1] = key }
                    IN  /\ Cardinality(at) = 1
                        /\ \A n \in at :
                               builds[a].lookup[n][2] =
                                   [target |-> member,
                                    puzzle |-> NodePuzzle(batches[b]),
                                    puzzle_hash |-> <<"sha256tree", NodePuzzle(batches[b])>>,
                                    amount |-> SumAmounts(batches[b], 1)]

\* a build on the default lookup that an earlier build of the same puzzle
\* hashes with other amounts has filled
C12_Witness ==
    /\ Len(builds) >= 2
    /\ builds[1].by_default /\ builds[2].by_default
    /\ Len(builds[2].targets) >= 3 /\ builds[2].leaf_width = 2
    /\ builds[1].targets /= builds[2].targets
    /\ Len(builds[1].targets) = Len(builds[2].targets)
    /\ 2 \in Returned

\* the entry of the lookup of a build for a puzzle hash
EntryOf(a, puzzle_hash) == DictGet(builds[a].lookup, hex(puzzle_hash))[1]

\* C13: the puzzle built for a batch is the quoted condition list, and running
\* it with the empty solution yields that list: the coin announcement of '$',
\* then one create-coin condition per member of the batch, in input order,
\* with the member's puzzle hash and amount.
C13_NodePuzzleConditions ==
    \A a \in LatestReturned :
        \A l \in 1..(Len(BuildLevels(a)) - 1) :
            LET batches == batch_the_bag(BuildLevels(a)[l], builds[a].leaf_width)
            IN  \A b \in 1..Len(batches) :
                    LET puzzle == EntryOf(a, batches[b][1].puzzle_hash).puzzle
                        conditions == Program_run(puzzle, <<>>)
                    IN  /\ puzzle = <<"q", conditions>>
                        /\ Len(conditions) = 1 + Len(batches[b])
                        /\ conditions[1] = <<"CREATE_COIN_ANNOUNCEMENT", "$">>
                        /\ \A j \in 1..Len(batches[b]) :
                               /\ conditions[j + 1][1] = "CREATE_COIN"
                               /\ conditions[j + 1][2] = batches[b][j].puzzle_hash
                               /\ conditions[j + 1][3] = batches[b][j].amount

\* a build of three leaves with width 2: a batch of two and a batch of one
C13_Witness ==
    /\ Len(builds) >= 1
    /\ 1 \in Returned
    /\ Len(builds[1].targets) = 3 /\ builds[1].leaf_width = 2
    /\ Len(Program_run(EntryOf(1, builds[1].targets[1].puzzle_hash).puzzle, <<>>)) = 3
    /\ Len(Program_run(EntryOf(1, builds[1].targets[3].puzzle_hash).puzzle, <<>>)) = 2

\* the nodes the lookup of a build holds for the batches of one level
NodesAbove(a, level) ==
    LET batches == batch_the_bag(level, builds[a].leaf_width)
    IN  [b \in 1..Len(batches) |->
            Target(EntryOf(a, batches[b][1].puzzle_hash).puzzle_hash,
                   EntryOf(a, batches[b][1].puzzle_hash).amount)]

\* the levels of a build as its lookup holds them, from the leaves to the root
RECURSIVE NodeLevels(_, _, _)
NodeLevels(a, level, fuel) ==
    IF Len(level) <= 1 \/ fuel = 0 THEN <<level>>
    ELSE <<level>> \o NodeLevels(a, NodesAbove(a, level), fuel - 1)

\* C14: the amount of every node is the sum of the amounts of the members of
\* its batch; the total of every level is the sum of the leaf amounts; the
\* root node holds the sum of all leaves; three leaves with width 2 give two
\* nodes at depth 1 and one root.
C14_AmountsAddUp ==
    \A a \in LatestReturned :
        LET levels == NodeLevels(a, builds[a].targets, RecursionLimit)
            top == levels[Len(levels)]
            leaf_total == SumAmounts(builds[a].targets, 1)
        IN  /\ \A l \in 1..(Len(levels) - 1) :
                   LET batches == batch_the_bag(levels[l], builds[a].leaf_width)
                   IN  \A b \in 1..Len(batches) :
                           levels[l + 1][b].amount = SumAmounts(batches[b], 1)
            /\ \A l \in 1..Len(levels) : SumAmounts(levels[l], 1) = leaf_total
            /\ Len(top) = 1
            /\ top[1].puzzle_hash = builds[a].root
            /\ top[1].amount = leaf_total
            /\ (Len(builds[a].targets) = 3 /\ builds[a].leaf_width = 2) =>
                   (Len(levels) = 3 /\ Len(levels[2]) = 2)

\* three leaves with width 2, built into an explicit lookup
C14_Witness ==
    \E a \in Returned :
        /\ ~builds[a].by_default
        /\ Len(builds[a].targets) = 3 /\ builds[a].leaf_width = 2
        /\ LET levels == NodeLevels(a, builds[a].targets, RecursionLimit)
           IN  /\ Len(levels) = 3
               /\ levels[2][1].amount =
                      builds[a].targets[1].amount + builds[a].targets[2].amount
               /\ levels[2][2].amount = builds[a].targets[3].amount
               /\ levels[3][1].amount > levels[2][1].amount

(***************************************************************************)
(* secure_the_bag with every width from 1, each call with a new dict.      *)
(***************************************************************************)
NextChain == \E ts \in BuildLists, w \in AnyWidths : BuildExplicit(ts, w)

SpecChain == InitBuild /\ [][NextChain]_vars

(***************************************************************************)
(* secure_the_bag on target lists in which a puzzle hash can occur more    *)
(* than once, each call with a new dict.                                   *)
(***************************************************************************)
\* the number of different puzzle hashes of these lists
MaxRepeatHashes == 2

\* the lists of 1..n targets over the puzzle hashes, amounts by position
RECURSIVE RepeatListsOf(_)
RepeatListsOf(n) ==
    IF n = 0 THEN {<<>>}
    ELSE { Append(ts, Target(<<"ph", h>>, n)) :
           ts \in RepeatListsOf(n - 1), h \in 1..MaxRepeatHashes }

RepeatLists == UNION { RepeatListsOf(n) : n \in 1..MaxBuildTargets }

NextRepeat == \E ts \in RepeatLists, w \in BuildWidths : BuildExplicit(ts, w)

SpecRepeat == InitBuild /\ [][NextRepeat]_vars

(***************************************************************************)
(* Two calls of secure_the_bag with one width, each with a new dict, on    *)
(* target lists that vary in puzzle hash, amount, order and length.        *)
(***************************************************************************)
PairLeaves == { Target(<<"ph", h>>, amount) : h \in {1, 2}, amount \in {1, 2} }

RECURSIVE PairListsOf(_)
PairListsOf(n) ==
    IF n = 0 THEN {<<>>}
    ELSE { Append(ts, target) : ts \in PairListsOf(n - 1), target \in PairLeaves }

PairLists == UNION { PairListsOf(n) : n \in 1..MaxBuildTargets }

\* the first call with any width, the second with the width of the first
BuildPair(ts, w) ==
    /\ Len(builds) < 2
    /\ builds /= <<>> => w = builds[1].leaf_width
    /\ BuildExplicit(ts, w)

NextPair == \E ts \in PairLists, w \in BuildWidths : BuildPair(ts, w)

SpecPair == InitBuild /\ [][NextPair]_vars

(***************************************************************************)
(* Properties of batch_the_bag                                             *)
(***************************************************************************)
\* the concatenation of the batches from the b-th on
RECURSIVE Concat(_, _)
Concat(batches, b) ==
    IF b > Len(batches) THEN <<>> ELSE batches[b] \o Concat(batches, b + 1)

\* C15: batch_the_bag(targets, w) with w >= 1 returns consecutive batches
\* whose concatenation is the input in the same order; every batch but the
\* last has exactly w elements, the last has between 1 and w, no batch is
\* empty, and an empty input yields no batch.
C15_BatchesPartition ==
    \A c \in 1..Len(batch_calls) :
        LET call == batch_calls[c]
            n == Len(call.results)
        IN  call.leaf_width >= 1 =>
                /\ Concat(call.results, 1) = call.targets
                /\ \A b \in 1..(n - 1) : Len(call.results[b]) = call.leaf_width
                /\ n > 0 => Len(call.results[n]) \in 1..call.leaf_width
                /\ \A b \in 1..n : call.results[b] /= <<>>
                /\ call.targets = <<>> => call.results = <<>>

\* one call on the empty list, and one that leaves a short last batch after
\* full ones
C15_Witness ==
    /\ Len(batch_calls) = 2
    /\ batch_calls[1].targets = <<>> /\ batch_calls[1].results = <<>>
    /\ Len(batch_calls[2].targets) = MaxTargets /\ batch_calls[2].leaf_width = 2
    /\ Len(batch_calls[2].results) = 3
    /\ Len(batch_calls[2].results[3]) = 1

\* the lookup a build was given: a new dict, or the default dict as the
\* latest earlier call with the default left it
RECURSIVE LookupGiven(_, _)
LookupGiven(a, earlier) ==
    IF ~builds[a].by_default \/ earlier = 0 THEN EmptyDict
    ELSE IF builds[earlier].by_default THEN builds[earlier].lookup
    ELSE LookupGiven(a, earlier - 1)

\* the builds of at least two targets whose last batch holds one target
SingleLast ==
    { a \in Returned :
        /\ Len(builds[a].targets) >= 2
        /\ LET batches == batch_the_bag(builds[a].targets, builds[a].leaf_width)
           IN  Len(batches[Len(batches)]) = 1 }

\* C16: secure_the_bag on exactly one target returns the puzzle hash of that
\* target as the root and adds no entry to the lookup; a final batch of one
\* element among two or more targets is wrapped in a new node of its own.
C16_SingleTargetAndSingleBatch ==
    /\ \A a \in {Len(builds)} \ {0} :
           Len(builds[a].targets) = 1 =>
               /\ builds[a].raised = ""
               /\ builds[a].root = builds[a].targets[1].puzzle_hash
               /\ builds[a].lookup = LookupGiven(a, a - 1)
    /\ \A a \in SingleLast \cap LatestReturned :
           LET last == builds[a].targets[Len(builds[a].targets)]
               entry == DictGet(builds[a].lookup, hex(last.puzzle_hash))
           IN  /\ entry /= None
               /\ entry[1].target = last
               /\ entry[1].puzzle = Program_quote(<<EMPTY_COIN_ANNOUNCEMENT,
                                                    create_coin_condition(last)>>)
               /\ entry[1].puzzle_hash = get_tree_hash(entry[1].puzzle)
               /\ entry[1].puzzle_hash /= last.puzzle_hash
               /\ entry[1].amount = last.amount

\* a build of one target into a default lookup that already holds entries,
\* and a build whose last batch holds one target
C16_Witness ==
    /\ Len(builds) = 3
    /\ builds[1].by_default /\ Len(builds[1].targets) = 2
    /\ builds[2].by_default /\ Len(builds[2].targets) = 1
    /\ builds[2].lookup /= EmptyDict /\ builds[2].lookup = builds[1].lookup
    /\ 3 \in SingleLast

\* C17 as stated: secure_the_bag returns for every non-empty list of targets
\* and every width from 1, width 1 with two or more targets included, and
\* the level above two or more targets holds fewer targets than they are.
C17_Terminates ==
    \A a \in 1..Len(builds) :
        (builds[a].targets /= <<>> /\ builds[a].leaf_width >= 1) =>
            /\ builds[a].raised = ""
            /\ Len(builds[a].targets) >= 2 =>
                   Len(batch_the_bag(builds[a].targets, builds[a].leaf_width))
                       < Len(builds[a].targets)

\* two targets built with width 1: the call ends in RecursionError, the level
\* above the two targets holding two targets again
C17_Witness ==
    \E a \in 1..Len(builds) :
        /\ Len(builds[a].targets) = 2 /\ builds[a].leaf_width = 1
        /\ builds[a].raised = "RecursionError"
        /\ Len(batch_the_bag(builds[a].targets, 1)) = 2

(***************************************************************************)
(* Properties of the full-tree unwind: levels and sub-batches              *)
(***************************************************************************)
\* where level_coin_spends holds the spend of the coin: (depth, position)
Placements(name) ==
    UNION { { <<d, j>> : j \in { k \in 1..Len(LevelAt(level_coin_spends, d)) :
                  coin_name(LevelAt(level_coin_spends, d)[k][2].coin) = name } } :
            d \in 0..(Len(level_coin_spends) - 1) }

\* where the bundles pushed by this run hold the spend of the coin: (push, position)
Pushings(name) ==
    UNION { { <<p, j>> : j \in { k \in 1..Len(pushes[p].bundle.coin_spends) :
                  coin_name(pushes[p].bundle.coin_spends[k].coin) = name } } :
            p \in 1..Len(pushes) }

\* C18: in one full-tree unwind whose planning saw coin records that did not
\* change, each tree coin is placed in at most one level and pushed in at most
\* one spend set.
C18_PlacedAndPushedOnce ==
    \A coin_spend \in TreeSpends :
        /\ Cardinality(Placements(coin_name(coin_spend.coin))) <= 1
        /\ Cardinality(Pushings(coin_name(coin_spend.coin))) <= 1

\* a run on a partly unwound tree, planned for batches that share ancestors,
\* that pushed two levels and ended
C18_Witness ==
    /\ pc = "done"
    /\ spent_at_start /= {}
    /\ Len(batched_targets) >= 3
    /\ Len(level_coin_spends) = 2
    /\ Len(pushes) = 2
    /\ Cardinality(Pushings(coin_name(level_coin_spends[1][1][2].coin))) = 1

\* the tree spends of the bundles this run pushed at a depth, push by push
SubBatches(d) ==
    LET at_depth == SelectSeq(pushes, LAMBDA p : p.depth = d)
    IN  [k \in 1..Len(at_depth) |-> at_depth[k].bundle.coin_spends]

\* level.values() at a depth
LevelValues(d) ==
    [j \in 1..Len(LevelAt(level_coin_spends, d)) |-> LevelAt(level_coin_spends, d)[j][2]]

\* the run has left the level of depth d behind
LevelDone(d) == pc = "done" \/ (pc \in {"level", "push", "wait"} /\ depth > d)

\* C19: within one level the run pushes sub-batches of at most batch_size
\* (10) tree spends: no pushed sub-batch is empty, every sub-batch except the
\* last holds exactly 10, and every spend of the level is pushed in exactly
\* one sub-batch (the sub-batches, in order, are the spends of the level).
C19_SubBatches ==
    \A d \in 0..max_depth :
        LET subs == SubBatches(d)
            n == Len(subs)
            values == LevelValues(d)
        IN  /\ \A k \in 1..n : Len(subs[k]) \in 1..batch_size
            /\ \A k \in 1..(n - 1) : Len(subs[k]) = batch_size
            /\ Len(Concat(subs, 1)) <= Len(values)
            /\ Concat(subs, 1) = SubSeq(values, 1, Len(Concat(subs, 1)))
            /\ LevelDone(d) =>
                   /\ Concat(subs, 1) = values
                   /\ \A j \in 1..Len(values) :
                          Cardinality({ k \in 1..n :
                              \E m \in 1..Len(subs[k]) : subs[k][m] = values[j] }) = 1

\* a finished run that pushed a level of more than 10 spends as a sub-batch
\* of 10 and a last one of fewer
C19_Witness ==
    /\ pc = "done"
    /\ \E d \in 0..max_depth :
           /\ Len(LevelValues(d)) > batch_size
           /\ Len(SubBatches(d)) >= 2
           /\ Len(SubBatches(d)[1]) = batch_size
           /\ Len(SubBatches(d)[Len(SubBatches(d))]) < batch_size

\* the bundles this run handed to push_tx
PushedBundles == { pushes[k].bundle : k \in 1..Len(pushes) }

\* C20: with unwind_fee > 0 the fee transaction of a sub-batch asserts one
\* coin announcement of '$' for each tree coin of the sub-batch and no other,
\* each of them an announcement the puzzle of that coin creates, and it is
\* pushed in the bundle of the sub-batch; with unwind_fee = 0 the bundle
\* holds the tree spends only.
C20_FeeAnnouncements ==
    \A bundle \in PushedBundles :
        /\ \A j \in 1..Len(bundle.coin_spends) : bundle.coin_spends[j] \in TreeSpends
        /\ unwind_fee = 0 => bundle.fee = None
        /\ unwind_fee > 0 =>
               /\ bundle.fee /= None
               /\ bundle.fee[1].fee = Len(bundle.coin_spends) * unwind_fee
               /\ LET asserted == bundle.fee[1].coin_announcements
                  IN  /\ Len(asserted) = Len(bundle.coin_spends)
                      /\ \A j \in 1..Len(bundle.coin_spends) :
                             LET coin_spend == bundle.coin_spends[j]
                                 conditions == Program_run(coin_spend.puzzle_reveal,
                                                           coin_spend.solution)
                             IN  /\ asserted[j] = <<coin_name(coin_spend.coin), "$">>
                                 /\ conditions[1] = <<"CREATE_COIN_ANNOUNCEMENT",
                                                      asserted[j][2]>>

\* a full sub-batch pushed with a fee and accepted: ten tree spends, ten
\* announcements
C20_Witness ==
    /\ unwind_fee > 0
    /\ \E bundle \in PushedBundles \cap mempool :
           /\ Len(bundle.coin_spends) = batch_size
           /\ Len(bundle.fee[1].coin_announcements) = batch_size

(***************************************************************************)
(* Properties of two plans on one ledger snapshot                          *)
(***************************************************************************)
\* the puzzle hashes of the leaves
LeafHashes == { targets[k].puzzle_hash : k \in 1..Len(targets) }

\* the plan unwind_the_bag returns for another target on the coin records,
\* lookup and genesis of the call made
OtherPlan(puzzle_hash) ==
    unwind_the_bag(unwind_result[1].records, puzzle_hash, genesis_coin_id,
                   parent_puzzle_lookup)

\* the positions (j, k) at which the plan made and another plan spend a coin
\* of the same node of the tree
SharedAt(other) ==
    { jk \in (1..Len(PlanSpends)) \X (1..Len(other)) :
        PlanSpends[jk[1]].coin.puzzle_hash = other[jk[2]].coin.puzzle_hash }

\* C21: two plans for different leaves that share an ancestor, made on the
\* same coin records with the same lookup and genesis, hold for the shared
\* ancestor the identical spend: the same coin (parent, puzzle hash, amount),
\* the same puzzle reveal and the same solution.
C21_SharedAncestorSameSpend ==
    (Called /\ PlanTarget \in LeafHashes) =>
        \A puzzle_hash \in LeafHashes \ {PlanTarget} :
            \A other \in { OtherPlan(puzzle_hash) } :
                \A jk \in SharedAt(other) :
                    /\ PlanSpends[jk[1]].coin = other[jk[2]].coin
                    /\ PlanSpends[jk[1]].puzzle_reveal = other[jk[2]].puzzle_reveal
                    /\ PlanSpends[jk[1]].solution = other[jk[2]].solution

\* a plan for a leaf, and another leaf under another parent whose plan shares
\* the root coin with it
C21_Witness ==
    /\ Called /\ PlanTarget \in LeafHashes
    /\ Len(PlanSpends) >= 2
    /\ \E puzzle_hash \in LeafHashes \ {PlanTarget} :
           /\ SharedAt(OtherPlan(puzzle_hash)) /= {}
           /\ OtherPlan(puzzle_hash) /= PlanSpends

\* the leaf-level batch that holds the leaf of a puzzle hash
BatchOf(puzzle_hash) ==
    CHOOSE b \in 1..Len(batched_targets) :
        \E j \in 1..Len(batched_targets[b]) : batched_targets[b][j].puzzle_hash = puzzle_hash

\* the spends of the plans for the first leaf of each batch
RepresentativeSpends ==
    UNION { { plan[j] : j \in 1..Len(plan) } :
            plan \in { OtherPlan(batched_targets[b][1].puzzle_hash) :
                       b \in 1..Len(batched_targets) } }

\* C22: on one ledger snapshot unwind_the_bag returns the same list of spends
\* for every leaf of one leaf-level batch, and the plans for the first leaf
\* of each batch hold, between them, the spend of every node coin of the tree
\* that the snapshot does not record as spent.
C22_RepresentativePlans ==
    Called =>
        /\ PlanTarget \in LeafHashes =>
               \A j \in 1..Len(batched_targets[BatchOf(PlanTarget)]) :
                   OtherPlan(batched_targets[BatchOf(PlanTarget)][j].puzzle_hash) = PlanSpends
        /\ \A planned \in {RepresentativeSpends} : \A coin_spend \in TreeSpends :
               StatusIn(unwind_result[1].records, coin_spend.coin) /= "spent" =>
                   coin_spend \in planned

\* a plan of two spends or more for a leaf that is not the first of its
\* batch, on a snapshot with spent, unspent and unknown node coins
C22_Witness ==
    /\ Called /\ PlanTarget \in LeafHashes
    /\ batched_targets[BatchOf(PlanTarget)][1].puzzle_hash /= PlanTarget
    /\ Len(batched_targets) >= 2
    /\ Len(PlanSpends) >= 2
    /\ \A status \in {"spent", "unspent", "unknown"} :
           \E coin_spend \in TreeSpends :
               StatusIn(unwind_result[1].records, coin_spend.coin) = status

(***************************************************************************)
(* Properties of builds on lists that repeat a puzzle hash                 *)
(***************************************************************************)
\* the build records one lookup key for two batches with different nodes
KeyWithTwoParents(a) ==
    \E l \in 1..(Len(BuildLevels(a)) - 1) :
        \E batches \in { batch_the_bag(BuildLevels(a)[l], builds[a].leaf_width) } :
            \E b1, b2 \in 1..Len(batches) :
                /\ b1 /= b2
                /\ NodePuzzle(batches[b1]) /= NodePuzzle(batches[b2])
                /\ \E j1 \in 1..Len(batches[b1]), j2 \in 1..Len(batches[b2]) :
                       batches[b1][j1].puzzle_hash = batches[b2][j2].puzzle_hash

\* C23 as stated: a build that would record a lookup key twice with
\* differing parents fails with InconsistentTree.
C23_InconsistentTreeRaised ==
    \A a \in 1..Len(builds) :
        KeyWithTwoParents(a) => builds[a].raised = "InconsistentTree"

\* a build of <<ph1, ph2, ph1>> with width 2 that returned: the entry of ph1
\* is the node of the second batch, the node of the first batch is kept for
\* ph2 only
C23_Witness ==
    \E a \in 1..Len(builds) :
        /\ KeyWithTwoParents(a)
        /\ builds[a].raised = ""
        /\ Len(builds[a].targets) = 3 /\ builds[a].leaf_width = 2
        /\ builds[a].targets[1].puzzle_hash = builds[a].targets[3].puzzle_hash
        /\ EntryOf(a, builds[a].targets[1].puzzle_hash).puzzle
               = NodePuzzle(<<builds[a].targets[3]>>)
        /\ EntryOf(a, builds[a].targets[2].puzzle_hash).puzzle
               = NodePuzzle(<<builds[a].targets[1], builds[a].targets[2]>>)

(***************************************************************************)
(* Properties of the full-tree unwind: failures of a sub-batch             *)
(***************************************************************************)
\* the run has ended on the push_tx of the sub-batch it still holds
EndedOnRejectedPush ==
    /\ pc = "failed"
    /\ pushes /= <<>>
    /\ pushes[Len(pushes)].bundle.coin_spends = bundle_spends

\* C24 as stated: a rejected push does not end the run (the run plans again
\* on the current ledger and goes on).
C24_RejectionRetried == ~EndedOnRejectedPush

\* a sub-batch holding a coin that another actor spent after the run planned
\* it: push_tx raised and the run is over, nothing of the sub-batch pending
C24_Witness ==
    /\ EndedOnRejectedPush
    /\ foreign > 0
    /\ \E j \in 1..Len(bundle_spends) : RecordedSpent(coin_name(bundle_spends[j].coin))
    /\ pushes[Len(pushes)].bundle \notin mempool

\* the spends app plans on coin records: those of the plans for the first
\* target of each batch
PlannedOn(records) ==
    UNION { { plan[j] : j \in 1..Len(plan) } :
            plan \in { unwind_the_bag(records, batched_targets[b][1].puzzle_hash,
                                      genesis_coin_id, parent_puzzle_lookup) :
                       b \in 1..Len(batched_targets) } }

\* the run has ended on the funding of the sub-batch it still holds
EndedOnFunding == pc = "failed" /\ ~EndedOnRejectedPush

\* the step in which the funding of a sub-batch fails
FundingFailsStep == pc = "push" /\ pc' = "failed" /\ Len(pushes') = Len(pushes)

PairBuilt ==
    /\ Len(builds) = 2
    /\ builds[1].leaf_width = builds[2].leaf_width
    /\ builds[1].raised = "" /\ builds[2].raised = ""

\* both lists hold one target, with the same puzzle hash
SameSingleHash ==
    /\ Len(builds[1].targets) = 1 /\ Len(builds[2].targets) = 1
    /\ builds[1].targets[1].puzzle_hash = builds[2].targets[1].puzzle_hash

\* C26 as stated: for one width, two non-empty target lists that differ in
\* the puzzle hash or the amount of a leaf, in the order or in the length
\* have different root hashes.
C26_Original ==
    (PairBuilt /\ builds[1].targets /= builds[2].targets) =>
        builds[1].root /= builds[2].root

\* C26, amended: for one width, two non-empty target lists that differ have
\* different root hashes, unless both hold exactly one target with the same
\* puzzle hash: the root of a list of one target is the puzzle hash of the
\* target, whatever its amount.
C26_DifferentListsDifferentRoots ==
    (PairBuilt /\ builds[1].targets /= builds[2].targets) =>
        (builds[1].root = builds[2].root <=> SameSingleHash)

\* two lists of three targets that differ in the amount of the last leaf
\* only, built into different roots
C26_Witness ==
    /\ PairBuilt
    /\ Len(builds[1].targets) = 3 /\ Len(builds[2].targets) = 3
    /\ \A j \in 1..3 : builds[1].targets[j].puzzle_hash = builds[2].targets[j].puzzle_hash
    /\ \A j \in 1..2 : builds[1].targets[j].amount = builds[2].targets[j].amount
    /\ builds[1].targets[3].amount /= builds[2].targets[3].amount
    /\ builds[1].root /= builds[2].root

(***************************************************************************)
(* Properties of a lookup after the call that returned it                  *)
(***************************************************************************)
\* what the dict a call returned holds now: a call with the default returned
\* the default dict itself, a call with a new dict returned that dict, which
\* no later call is given
ReturnedLookupNow(a) == IF builds[a].by_default THEN default_lookup ELSE builds[a].lookup

\* C27 as stated: the lookup a call of secure_the_bag returned has, after
\* every later call, the keys and the entries it had when it was returned.
C27_ReturnedLookupUnchanged ==
    \A a \in Returned :
        /\ DictKeys(ReturnedLookupNow(a)) = DictKeys(builds[a].lookup)
        /\ \A k \in DictKeys(builds[a].lookup) :
               DictGet(ReturnedLookupNow(a), k) = DictGet(builds[a].lookup, k)

\* two calls with the default lookup on different lists: the dict the first
\* returned now holds a key of the second list that it did not hold, and
\* another entry under a key it did hold
C27_Witness ==
    /\ Len(builds) = 2
    /\ builds[1].by_default /\ builds[2].by_default
    /\ 1 \in Returned
    /\ Len(builds[1].targets) = 2 /\ Len(builds[2].targets) = 3
    /\ hex(builds[2].targets[3].puzzle_hash)
           \in DictKeys(ReturnedLookupNow(1)) \ DictKeys(builds[1].lookup)
    /\ DictGet(ReturnedLookupNow(1), hex(builds[1].targets[1].puzzle_hash))
           /= DictGet(builds[1].lookup, hex(builds[1].targets[1].puzzle_hash))

(***************************************************************************)
(* Properties of the full-tree unwind: one sub-batch at a time             *)
(***************************************************************************)
\* every tree coin of the k-th bundle this run pushed is recorded as spent
PushSpent(k) ==
    \A j \in 1..Len(pushes[k].bundle.coin_spends) :
        RecordedSpent(coin_name(pushes[k].bundle.coin_spends[j].coin))

\* the bundles of this run that are pending and can still be included
PendingPushes ==
    { bundle \in PushedBundles \cap mempool :
        AllUnspent(coin_records, SpendNames(bundle.coin_spends)) }

\* C28: sub-batches are pushed one after another.  When the run is at the
\* funding and push of a sub-batch (of the same or of the next level), every
\* tree coin of every sub-batch it pushed before is recorded as spent; so at
\* most the last bundle pushed holds an unspent tree coin, no two bundles of
\* the run are pending together, and no funding is selected while a fee
\* spend of the run is pending.
C28_OneSubBatchAtATime ==
    /\ \A k \in 1..(Len(pushes) - 1) : PushSpent(k)
    /\ pc \in {"level", "push", "done"} => \A k \in 1..Len(pushes) : PushSpent(k)
    /\ Cardinality(PendingPushes) <= 1
    /\ pc = "push" => PendingPushes = {}

\* the run is at the funding of a sub-batch of the next level, with a fee,
\* after a sub-batch of two coins was pushed, included and seen spent
C28_Witness ==
    /\ pc = "push"
    /\ unwind_fee > 0
    /\ Len(pushes) >= 1
    /\ depth > pushes[Len(pushes)].depth
    /\ Len(pushes[Len(pushes)].bundle.coin_spends) >= 2
    /\ PushSpent(Len(pushes))
    /\ mempool = {}
----------------------------------------------------------------------------
(* C29: wait_for_coin_spend *)

\* the coin the running wait_for_coin_spend was called for
WaitedCoin == spent_coin_names[1]

\* wait_for_coin_spend is inside its loop
Waiting == pc \in {"wait_poll", "wait_sleep"}

\* C29: wait_for_coin_spend returns only in a pass of its loop whose query
\* reports the coin with a spent index above 0; while the coin is unknown or
\* unspent the call stays in its loop, and after a sleep it queries again; and
\* once the coin is spent the call returns.
C29_WaitReturnsWhenSpent ==
    /\ [][pc' = "wait_returned" /\ pc /= "wait_returned"
            => pc = "wait_poll" /\ RecordedSpent(WaitedCoin)]_vars
    /\ [][Waiting /\ ~RecordedSpent(WaitedCoin)
            => pc' \in {"wait_poll", "wait_sleep"}]_vars
    /\ [][pc = "wait_sleep" /\ pc' /= pc => pc' = "wait_poll"]_vars
    /\ (Waiting /\ RecordedSpent(WaitedCoin)) ~> (pc = "wait_returned")

\* a wait that began before its coin was spent has returned: the only spend
\* the ledger holds is the one of the waited coin, made while the call ran
C29_Witness ==
    /\ pc = "wait_returned"
    /\ foreign = 1
    /\ SpentCoins(coin_records) = {WaitedCoin}

----------------------------------------------------------------------------
(* C30: unwinding to a single target *)

\* the spend of the coin that creates the unwind target
TargetParentSpend ==
    parent_of_puzzle_hash(genesis_coin_id, PlanTarget, parent_puzzle_lookup).coin_spend

\* C30: in a run with an unwind target nothing is pushed before the plan is
\* returned; the k-th bundle pushed holds the k-th planned spend and no other
\* tree spend; the planned spends run from parent to child and end with the
\* spend that creates the target; every spend but the last pushed is of a
\* coin the ledger records as spent; and while the run waits for the coin of
\* spend k, k bundles have been pushed.
C30_OneSpendAfterAnother ==
    /\ ~Called => pushes = <<>>
    /\ Called =>
        /\ Len(pushes) <= Len(PlanSpends)
        /\ \A k \in 1..Len(pushes) :
               /\ pushes[k].bundle.coin_spends = <<PlanSpends[k]>>
               /\ k < Len(pushes) => RecordedSpent(coin_name(PlanSpends[k].coin))
        /\ \A k \in 1..(Len(PlanSpends) - 1) :
               PlanSpends[k + 1].coin.parent_coin_info = coin_name(PlanSpends[k].coin)
        /\ PlanSpends /= <<>> => TargetParentSpend = Some(PlanSpends[Len(PlanSpends)])
        /\ pc = "target_push" => Len(pushes) = i - 1
        /\ pc \in {"wait_poll", "wait_sleep", "wait_returned"} =>
               /\ Len(pushes) = i
               /\ WaitedCoin = coin_name(PlanSpends[i].coin)
        /\ pc = "wait_returned" => RecordedSpent(WaitedCoin)

\* a run has pushed a plan of three or more spends, one bundle each, and is
\* past its loop
C30_Witness ==
    /\ Called
    /\ pc \in {"target_mint", "done"}
    /\ Len(PlanSpends) >= 3
    /\ Len(pushes) = Len(PlanSpends)

----------------------------------------------------------------------------
(* C31: the number of batching levels *)

CeilDiv(n, d) == (n + d - 1) \div d

RECURSIVE Pow(_, _)
Pow(w, k) == IF k = 0 THEN 1 ELSE w * Pow(w, k - 1)

\* the least k >= 0 with ceil(n / w^k) = 1
LeastLevels(n, w) ==
    CHOOSE k \in 0..RecursionLimit :
        /\ CeilDiv(n, Pow(w, k)) = 1
        /\ \A j \in 0..(k - 1) : CeilDiv(n, Pow(w, j)) /= 1

\* the positions of a key in a lookup
KeyPositions(lookup, puzzle_hash) ==
    { n \in 1..Len(lookup) : lookup[n][1] = hex(puzzle_hash) }

\* C31: a call of secure_the_bag with w >= 2 on N >= 1 targets batches on
\* exactly L levels, L the least k with ceil(N / w^k) = 1.  The first level is
\* handed the targets and each later level the nodes of the one before; a
\* level handed n targets passes on ceil(n / w) nodes, the last a single one,
\* the root; every target of a level is in exactly one batch and is a key of
\* the lookup exactly once after the level, and the level adds at most n keys,
\* exactly n when the lookup was empty before the call.
C31_LevelsAndNodes ==
    \A a \in LatestReturned :
        \A levels \in { builds[a].levels } :
            /\ Len(levels) = LeastLevels(Len(builds[a].targets), builds[a].leaf_width)
            /\ \A l \in 1..Len(levels) :
                   /\ levels[l].targets =
                          IF l = 1 THEN builds[a].targets ELSE levels[l - 1].results
                   /\ Len(levels[l].results) =
                          CeilDiv(Len(levels[l].targets), builds[a].leaf_width)
                   /\ Concat(levels[l].batched_targets, 1) = levels[l].targets
                   /\ \A j \in 1..Len(levels[l].targets) :
                          Cardinality(KeyPositions(levels[l].lookup,
                                                   levels[l].targets[j].puzzle_hash)) = 1
                   /\ Len(levels[l].lookup) <= Len(levels[l].given) + Len(levels[l].targets)
                   /\ a = 1 =>
                          Len(levels[l].lookup) =
                              Len(levels[l].given) + Len(levels[l].targets)
            /\ levels /= <<>> =>
                   /\ Len(levels[Len(levels)].results) = 1
                   /\ levels[Len(levels)].results[1].puzzle_hash = builds[a].root
                   /\ levels[Len(levels)].lookup = builds[a].lookup

\* a first call on five targets with width 2 has batched on three levels
C31_Witness ==
    /\ Len(builds) = 1
    /\ 1 \in Returned
    /\ Len(builds[1].targets) = 5 /\ builds[1].leaf_width = 2
    /\ Len(builds[1].levels) = 3

----------------------------------------------------------------------------
(* C32: every leaf is equally deep *)

\* the number of ancestors of a puzzle hash: the lookup entries followed from
\* it to the root
Ancestors(puzzle_hash) == Len(AncestorSpends(puzzle_hash))

\* the number of batching levels of the tree of app
Levels == LeastLevels(Len(targets), leaf_width)

\* the planner runs that have returned
PlansDone == IF pc = "plan" THEN batch_index - 1 ELSE Len(batched_targets)

\* C32: every leaf of the tree has as many ancestors as the build had batching
\* levels.  On a ledger that knows no tree coin each plan made for the first
\* leaf of a batch has that length, and once the plans are placed there is
\* one level per batching level and every spend placed at level index d is of
\* a node with d ancestors.
C32_LeavesEquallyDeep ==
    /\ \A j \in 1..Len(targets) : Ancestors(targets[j].puzzle_hash) = Levels
    /\ pc /= "idle" =>
        /\ coin_records = NoRecords
        /\ total_spends = PlansDone * Levels
    /\ pc \notin {"idle", "plan"} =>
        /\ Len(level_coin_spends) = Levels
        /\ max_depth = IF Levels = 0 THEN 0 ELSE Levels - 1
        /\ \A d \in 0..max_depth :
               \A j \in 1..Len(LevelAt(level_coin_spends, d)) :
                   Ancestors(LevelAt(level_coin_spends, d)[j][2].coin.puzzle_hash) = d

\* the plans of a tree of three levels and several leaf batches are placed
C32_Witness ==
    /\ pc = "level"
    /\ Levels >= 3
    /\ Len(batched_targets) >= 2
    /\ Len(LevelAt(level_coin_spends, 2)) >= 2

----------------------------------------------------------------------------
(* C33: the root and the keys of the returned lookup *)

\* the keys the tree of a build calls for: every member of every batch
MemberKeys(a) ==
    UNION { { hex(BuildLevels(a)[l][j].puzzle_hash) : j \in 1..Len(BuildLevels(a)[l]) } :
            l \in 1..(Len(BuildLevels(a)) - 1) }

\* C33 as stated: after whatever calls went before, the call of secure_the_bag
\* just made returned a root hash that is no key of the lookup it returned,
\* that lookup has the members of the batches of the tree just built for its
\* keys and no others, and parent_of_puzzle_hash answers (None, genesis) for
\* the root.
C33_RootIsNoKey ==
    \A a \in LatestReturned :
        /\ hex(builds[a].root) \notin DictKeys(builds[a].lookup)
        /\ DictKeys(builds[a].lookup) = MemberKeys(a)
        /\ parent_of_puzzle_hash(genesis_coin_id, builds[a].root, builds[a].lookup)
               = [coin_spend |-> None, name |-> genesis_coin_id]

\* a second call with the default lookup, on the first two targets of the
\* first call: the root it returns is a key the first call wrote
C33_Witness ==
    /\ Len(builds) = 2
    /\ builds[1].by_default /\ builds[2].by_default
    /\ 2 \in Returned
    /\ Len(builds[1].targets) = 3 /\ Len(builds[2].targets) = 2
    /\ builds[1].leaf_width = 2 /\ builds[2].leaf_width = 2
    /\ hex(builds[2].root) \in DictKeys(builds[2].lookup)
    /\ parent_of_puzzle_hash(genesis_coin_id, builds[2].root,
                             builds[2].lookup).coin_spend /= None

----------------------------------------------------------------------------
(* C34: the first coin of a plan *)

\* what the ledger of the call said about the coin of the j-th returned spend
SpendStatus(j) == StatusIn(unwind_result[1].records, PlanSpends[j].coin)

\* the first returned spend is of a coin that exists unspent, every later one
\* of a coin the ledger does not know
StartsAtUnspent ==
    /\ SpendStatus(1) = "unspent"
    /\ AllUnspent(unwind_result[1].records, {coin_name(PlanSpends[1].coin)})
    /\ \A j \in 2..Len(PlanSpends) : SpendStatus(j) = "unknown"

\* C34 as stated: every non-empty list unwind_the_bag returns starts with the
\* spend of a coin the ledger of the call holds unspent, and holds after it
\* spends of coins that ledger does not know.
C34_Original == (Called /\ PlanSpends /= <<>>) => StartsAtUnspent

\* C34: a non-empty list unwind_the_bag returns on a ledger that knows the
\* root coin starts with the spend of a coin the ledger holds unspent, and
\* holds after it spends of coins the ledger does not know; on a ledger that
\* does not know the root coin every spend of the list is of an unknown coin
\* and the first is the root coin's.
C34_PlanStartsAtUnspent ==
    (Called /\ PlanSpends /= <<>>) =>
        IF StatusIn(unwind_result[1].records, RootCoin) /= "unknown"
        THEN StartsAtUnspent
        ELSE /\ PlanSpends[1].coin = RootCoin
             /\ \A j \in 1..Len(PlanSpends) : SpendStatus(j) = "unknown"

\* a list of two or more spends returned on a ledger on which the root coin
\* is spent
C34_Witness ==
    /\ Called
    /\ Len(PlanSpends) >= 2
    /\ StatusIn(unwind_result[1].records, RootCoin) = "spent"
    /\ StartsAtUnspent

----------------------------------------------------------------------------
(* C35: the level maps when others spend while the run plans *)

\* the level indices at which level_coin_spends holds a spend of the coin
LevelsOf(name) == { p[1] : p \in Placements(name) }

\* the names of the coins placed at a level index
LevelNames(d) == { coin_name(coin) : coin \in LevelCoins(d) }

\* C35 as stated: whatever other actors spend while the run plans, each tree
\* coin is placed at one level index at most, and every coin placed at a level
\* index above 0 has its parent coin placed at the index before.
C35_LevelsKeptUnderForeignSpends ==
    /\ \A coin_spend \in TreeSpends :
           Cardinality(LevelsOf(coin_name(coin_spend.coin))) <= 1
    /\ \A d \in 1..(Len(level_coin_spends) - 1) :
           \A coin \in LevelCoins(d) : coin.parent_coin_info \in LevelNames(d - 1)

\* another actor spent a coin while the run planned, and the run, never
\* restarted, holds the spend of one coin at two level indices
C35_Witness ==
    /\ pc \in {"plan", "level"}
    /\ restarts = 0
    /\ foreign = 1
    /\ pushes = <<>>
    /\ \E coin_spend \in TreeSpends :
           Cardinality(LevelsOf(coin_name(coin_spend.coin))) = 2

----------------------------------------------------------------------------
(* C36: the value of a pushed spend set *)

\* what the tree spends of a bundle create beyond what they spend
RECURSIVE Shortfall(_, _)
Shortfall(coin_spends, j) ==
    IF j > Len(coin_spends) THEN 0
    ELSE missing_amount(coin_spends[j]) + Shortfall(coin_spends, j + 1)

\* what the funding coins of a bundle bring beyond their change
Funded(bundle) ==
    IF bundle.fee = None THEN 0 ELSE bundle.fee[1].fee + bundle.fee[1].missing_amount

\* the fee a bundle pays
FeeOf(bundle) == IF bundle.fee = None THEN 0 ELSE bundle.fee[1].fee

\* C36 as stated: in every spend set the run pushed, the coins spent cover the
\* coins created and the fee, whatever the fee per spend is, and the shortfall
\* the funding covers is the sum of the shortfalls of the tree spends.
C36_ValueBalanced ==
    \A bundle \in PushedBundles :
        /\ Funded(bundle) >= Shortfall(bundle.coin_spends, 1) + FeeOf(bundle)
        /\ bundle.fee /= None =>
               bundle.fee[1].missing_amount = Shortfall(bundle.coin_spends, 1)

\* a run without a fee has pushed the spend of the root coin, which creates
\* coins of more than its amount, and no funding goes with it
C36_Witness ==
    /\ unwind_fee = 0
    /\ Len(pushes) >= 1
    /\ pushes[1].bundle.coin_spends = <<pushes[1].bundle.coin_spends[1]>>
    /\ pushes[1].bundle.coin_spends[1].coin = RootCoin
    /\ pushes[1].bundle.fee = None
    /\ Shortfall(pushes[1].bundle.coin_spends, 1) > 0

----------------------------------------------------------------------------
(* C37: the commands with their default options *)

\* C37 as stated: for one target list the unwind command with its default
\* options builds the tree the commit command with its default options built:
\* the same root hash and the same lookup.
C37_DefaultsRebuildTheTree ==
    \A a, b \in Returned :
        (/\ builds[a].command = "commit"
         /\ builds[b].command = "unwind"
         /\ builds[a].targets = builds[b].targets)
        => /\ builds[a].root = builds[b].root
           /\ builds[a].lookup = builds[b].lookup

\* the commit command and then the unwind command, both with the defaults,
\* on a list of one target more than the commit default width: two roots
C37_Witness ==
    /\ Len(builds) = 2
    /\ Returned = {1, 2}
    /\ builds[1].command = "commit" /\ builds[2].command = "unwind"
    /\ builds[1].targets = builds[2].targets
    /\ Len(builds[1].targets) = commit_leaf_width + 1
    /\ builds[1].root /= builds[2].root

----------------------------------------------------------------------------
(* C38: unspent_coin_exists and wait_for_unspent_coin *)

\* what the ledger says now about the coin the call waits for
WaitedStatus ==
    IF WaitedCoin \notin DOMAIN coin_records THEN "unknown"
    ELSE IF coin_records[WaitedCoin] = 0 THEN "unspent" ELSE "spent"

\* C38: a pass of wait_for_unspent_coin's loop ends in the sleep exactly when
\* the ledger has no record of the coin (unspent_coin_exists answered False),
\* with the return exactly when the coin exists unspent (it answered True),
\* and with the exception exactly when the coin is spent; after a sleep the
\* loop asks again; and a call whose coin is spent ends with the exception.
C38_WaitForUnspentCoin ==
    /\ [][pc = "unspent_poll" /\ pc' /= pc =>
            /\ pc' = "unspent_sleep" <=> WaitedStatus = "unknown"
            /\ pc' = "unspent_returned" <=> WaitedStatus = "unspent"
            /\ pc' = "unspent_raised" <=> WaitedStatus = "spent"]_vars
    /\ [][pc = "unspent_sleep" /\ pc' /= pc => pc' = "unspent_poll"]_vars
    /\ [][(pc = "unspent_returned" \/ pc = "unspent_raised") => UNCHANGED pc]_vars
    /\ (pc \in {"unspent_poll", "unspent_sleep"} /\ WaitedStatus = "spent")
           ~> (pc = "unspent_raised")

\* a call made before its coin existed has returned: the root coin, the only
\* coin spent, was spent while the call ran, which made the coin of the call
C38_Witness ==
    /\ pc = "unspent_returned"
    /\ foreign = 1
    /\ WaitedStatus = "unspent"
    /\ WaitedCoin /= coin_name(RootCoin)
    /\ SpentCoins(coin_records) = {coin_name(RootCoin)}

=============================================================================
